---- MODULE Spec2Model ----
(***************************************************************************)
(* Model of the source-code-to-test-scenario pipeline of the QA add-on:    *)
(*   services/ai_generator.py  (AIGenerator: response recovery parser,     *)
(*                              fallback scenario generator, request)      *)
(*   models/code_scanner.py    (QACodeScanner: entity extraction)          *)
(*                                                                         *)
(* Texts are sequences of lexemes.  A lexeme is one punctuation character  *)
(* of JSON, one whitespace character, or an indivisible run of other       *)
(* characters (a word).  All string operations of the code (find, regular  *)
(* expressions, replace, strip, slicing) are modelled on these sequences,  *)
(* with 1-based positions.                                                 *)
(***************************************************************************)
EXTENDS Integers, Sequences, FiniteSets, TLC

VARIABLES
    op,             \* the operation that produced the current state
    class_body,     \* the class body handed to _extract_model_info
    analysis_data,  \* the entity description (analysis_json, parsed)
    response,       \* the completion text handed to the parser
    api_ok,         \* whether _call_api returned (TRUE) or raised (FALSE)
    max_tests,      \* the request's max_tests argument
    result,         \* what the operation returned: [raised, scenarios]
    repository,     \* the directories of the repository a scan session clones
    scan,           \* the qa.code.scan record with its module records
    temp_dirs,      \* how many directories made by fetch_repository exist
    prompt,         \* the document _build_code_analysis_prompt returned
    pos,            \* the position variable of a repair helper's loop (1-based)
    out,            \* the parts a repair helper's loop has appended to result
    test_node,      \* the guard expression of an if statement that wraps a raise
    validations,    \* the conditions _extract_validations recorded
    suites,         \* the qa.test.suite records of the database
    test_cases,     \* the qa.test.case records of the database
    next_id,        \* the next record id the database hands out
    last            \* the last action called on the scan and how it ended

gen_vars == <<op, class_body, analysis_data, response, api_ok, max_tests, result>>
scan_vars == <<repository, scan, temp_dirs>>
prompt_vars == <<prompt>>
repair_vars == <<pos, out>>
cond_vars == <<test_node, validations>>
flow_vars == <<suites, test_cases, next_id, last>>
vars == <<gen_vars, scan_vars, prompt_vars, repair_vars, cond_vars, flow_vars>>

(***************************************************************************)
(* Lexemes                                                                 *)
(***************************************************************************)
QT  == "\""
BS  == "\\"
NL  == "\n"
CR  == "\r"
TAB == "\t"
SP  == " "
LB  == "{"
RB  == "}"
LK  == "["
RK  == "]"
COLON == ":"
COMMA == ","
\* the markdown fence lexemes (three backquotes, written with apostrophes)
FENCE_JSON == "'''json"
FENCE == "'''"

\* str.strip() / json whitespace / regex \s, restricted to the lexemes above
WS == {SP, NL, CR, TAB}

(***************************************************************************)
(* Sequence helpers (Python slicing and searching)                         *)
(***************************************************************************)
Min(S) == CHOOSE m \in S : \A n \in S : m <= n
Max(S) == CHOOSE m \in S : \A n \in S : m >= n

\* s[a-1:b] in Python terms: the lexemes at 1-based positions a..b
Slice(s, a, b) ==
    LET lo == IF a < 1 THEN 1 ELSE a
        hi == IF b > Len(s) THEN Len(s) ELSE b
    IN  IF lo > hi THEN <<>> ELSE SubSeq(s, lo, hi)

\* s[:n] for n >= 0
Take(s, n) == Slice(s, 1, n)

\* whether pattern p occurs in s at position i
MatchAt(s, i, p) ==
    /\ i >= 1
    /\ i + Len(p) - 1 <= Len(s)
    /\ \A k \in 1..Len(p) : s[i + k - 1] = p[k]

\* str.find(p, start): first position >= from where p occurs, 0 when none
Find(s, p, from) ==
    LET hits == {i \in from..Len(s) : MatchAt(s, i, p)}
    IN  IF hits = {} THEN 0 ELSE Min(hits)

\* str.rfind(c, 0, before): last position < before holding lexeme c, 0 when none
RFind(s, c, before) ==
    LET hits == {i \in 1..Len(s) : i < before /\ s[i] = c}
    IN  IF hits = {} THEN 0 ELSE Max(hits)

\* str.count(c)
Count(s, c) == Cardinality({i \in 1..Len(s) : s[i] = c})

\* c * n, the empty string for n <= 0
Repeat(c, n) == [k \in 1..(IF n > 0 THEN n ELSE 0) |-> c]

\* first position >= i that holds no whitespace (Len(s)+1 when none)
SkipWs(s, i) ==
    LET rest == {j \in i..Len(s) : s[j] \notin WS}
    IN  IF rest = {} THEN (IF i > Len(s) THEN i ELSE Len(s) + 1) ELSE Min(rest)

\* \s* followed by lexeme c, from position i: the position of c, 0 when the
\* text does not match
Expect(s, i, c) ==
    IF SkipWs(s, i) <= Len(s) /\ s[SkipWs(s, i)] = c THEN SkipWs(s, i) ELSE 0

\* not s.strip()
IsBlank(s) == \A i \in 1..Len(s) : s[i] \in WS

\* s.strip()
Strip(s) ==
    IF IsBlank(s) THEN <<>>
    ELSE LET solid == {i \in 1..Len(s) : s[i] \notin WS}
         IN  Slice(s, Min(solid), Max(solid))

RECURSIVE Replace2(_, _, _, _)
\* s.replace(<<a, b>>, by): non-overlapping, left to right
Replace2(s, a, b, by) ==
    IF Len(s) < 2 THEN s
    ELSE IF s[1] = a /\ s[2] = b
         THEN by \o Replace2(Slice(s, 3, Len(s)), a, b, by)
         ELSE <<s[1]>> \o Replace2(Tail(s), a, b, by)

RECURSIVE Replace1(_, _, _)
\* s.replace(a, by) for a single lexeme a
Replace1(s, a, by) ==
    IF s = <<>> THEN <<>>
    ELSE (IF s[1] = a THEN by ELSE <<s[1]>>) \o Replace1(Tail(s), a, by)

RECURSIVE Join(_, _)
\* sep.join(parts) for a sequence of lexemes
Join(parts, sep) ==
    IF parts = <<>> THEN <<>>
    ELSE IF Len(parts) = 1 THEN <<parts[1]>>
    ELSE <<parts[1], sep>> \o Join(Tail(parts), sep)

(***************************************************************************)
(* JSON values, tagged by kind                                             *)
(***************************************************************************)
Str(s)   == [t |-> "str", s |-> s]
Num(w)   == [t |-> "num", s |-> <<w>>]
Null     == [t |-> "null", s |-> <<"None">>]
Arr(xs)  == [t |-> "arr", items |-> xs]
Obj(ms)  == [t |-> "obj", members |-> ms]

NumberWords  == {"1", "5"}
LiteralWords == {"null"}

\* dict.get(key, default): of repeated keys json.loads keeps the last
Get(obj, key, default) ==
    LET hits == {i \in 1..Len(obj.members) : obj.members[i][1] = key}
    IN  IF hits = {} THEN default ELSE obj.members[Max(hits)][2]

(***************************************************************************)
(* json.loads, a recursive descent over the lexemes.  Each step hands what *)
(* it has read to the next as a parameter.                                 *)
(***************************************************************************)
ParseFail == [ok |-> FALSE]
ParseOk(v, p) == [ok |-> TRUE, val |-> v, pos |-> p]

\* what a backslash escape decodes to; <<>> marks an invalid escape
Unescape(e) ==
    CASE e = "n" -> <<NL>>
      [] e = "t" -> <<TAB>>
      [] e = "r" -> <<CR>>
      [] e = QT  -> <<QT>>
      [] e = BS  -> <<BS>>
      [] OTHER   -> <<>>

RECURSIVE ScanString(_, _, _)
\* the string whose opening quote precedes position j; strict mode rejects
\* raw control characters
ScanString(s, j, acc) ==
    IF j > Len(s) THEN ParseFail
    ELSE IF s[j] = QT THEN ParseOk(acc, j + 1)
    ELSE IF s[j] = BS
         THEN IF j + 1 > Len(s) \/ Unescape(s[j + 1]) = <<>> THEN ParseFail
              ELSE ScanString(s, j + 2, acc \o Unescape(s[j + 1]))
    ELSE IF s[j] \in {NL, CR, TAB} THEN ParseFail
    ELSE ScanString(s, j + 1, Append(acc, s[j]))

RECURSIVE ParseValue(_, _)
RECURSIVE ParseMembers(_, _, _)
RECURSIVE ParseElements(_, _, _)

\* after a member's value: a closing brace, or a comma and another member
MemberEnd(s, acc, m) ==
    IF m > Len(s) THEN ParseFail
    ELSE IF s[m] = RB THEN ParseOk(Obj(acc), m + 1)
    ELSE IF s[m] = COMMA THEN ParseMembers(s, SkipWs(s, m + 1), acc)
    ELSE ParseFail

MemberValue(s, acc, k, v) ==
    IF ~v.ok THEN ParseFail
    ELSE MemberEnd(s, Append(acc, <<k.val, v.val>>), SkipWs(s, v.pos))

MemberColon(s, acc, k, c) ==
    IF c = 0 THEN ParseFail ELSE MemberValue(s, acc, k, ParseValue(s, SkipWs(s, c + 1)))

MemberKey(s, acc, k) ==
    IF ~k.ok THEN ParseFail ELSE MemberColon(s, acc, k, Expect(s, k.pos, COLON))

\* "key": value pairs from position j up to the closing brace
ParseMembers(s, j, acc) ==
    IF j > Len(s) \/ s[j] # QT THEN ParseFail
    ELSE MemberKey(s, acc, ScanString(s, j + 1, <<>>))

\* after an element: a closing bracket, or a comma and another element
ElementEnd(s, acc, m) ==
    IF m > Len(s) THEN ParseFail
    ELSE IF s[m] = RK THEN ParseOk(Arr(acc), m + 1)
    ELSE IF s[m] = COMMA THEN ParseElements(s, SkipWs(s, m + 1), acc)
    ELSE ParseFail

ElementValue(s, acc, v) ==
    IF ~v.ok THEN ParseFail ELSE ElementEnd(s, Append(acc, v.val), SkipWs(s, v.pos))

\* array elements from position j up to the closing bracket
ParseElements(s, j, acc) == ElementValue(s, acc, ParseValue(s, j))

StringValue(r) == IF r.ok THEN ParseOk(Str(r.val), r.pos) ELSE ParseFail

ObjectFrom(s, j) ==
    IF j <= Len(s) /\ s[j] = RB THEN ParseOk(Obj(<<>>), j + 1) ELSE ParseMembers(s, j, <<>>)

ArrayFrom(s, j) ==
    IF j <= Len(s) /\ s[j] = RK THEN ParseOk(Arr(<<>>), j + 1) ELSE ParseElements(s, j, <<>>)

\* one value starting at position i (whitespace already skipped)
ParseValue(s, i) ==
    IF i > Len(s) THEN ParseFail
    ELSE IF s[i] = QT THEN StringValue(ScanString(s, i + 1, <<>>))
    ELSE IF s[i] = LB THEN ObjectFrom(s, SkipWs(s, i + 1))
    ELSE IF s[i] = LK THEN ArrayFrom(s, SkipWs(s, i + 1))
    ELSE IF s[i] \in NumberWords THEN ParseOk(Num(s[i]), i + 1)
    ELSE IF s[i] \in LiteralWords THEN ParseOk(Null, i + 1)
    ELSE ParseFail

\* nothing but whitespace may follow the value
WholeText(s, v) == IF v.ok /\ SkipWs(s, v.pos) > Len(s) THEN v ELSE ParseFail

\* json.loads(s): [ok |-> FALSE] stands for json.JSONDecodeError
JsonLoads(s) == WholeText(s, ParseValue(s, SkipWs(s, 1)))

(***************************************************************************)
(* Results of operations that may raise                                    *)
(***************************************************************************)
\* an exception left the operation
Raised == [raised |-> TRUE, scenarios |-> <<>>, strategy |-> "raised"]
\* the operation returned the list, produced by the named strategy
Returned(list, how) == [raised |-> FALSE, scenarios |-> list, strategy |-> how]

\* the name of the analysed entity (model_analysis.model_name)
ModelName == <<"sale", ".", "order">>

Key(k) == <<QT, k, QT>>
RobotKey == Key("robot_code")
FourSpaces == <<SP, SP, SP, SP>>

\* str(value) inside an f-string
ToText(v) == IF v.t \in {"str", "num", "null"} THEN v.s ELSE <<"<repr>">>

\* the placeholder body of a scenario whose body is missing or blank
PlaceholderBody(name, description) ==
    <<"*** Test Cases ***", NL>> \o name
        \o <<NL, "    [Documentation]    ">> \o description
        \o <<NL, "    Log    TODO: Implement test">>

\* robot_code.replace('\\n', '\n').replace('\\t', '    ')
UnescapeBody(body) == Replace2(Replace2(body, BS, "n", <<NL>>), BS, "t", FourSpaces)

\* f'{i:03d}'
Pad3(i) ==
    IF i < 10 THEN "00" \o ToString(i)
    ELSE IF i < 100 THEN "0" \o ToString(i) ELSE ToString(i)

\* f'TC{i:03d}'
SynthTestId(i) == Str(<<"TC" \o Pad3(i)>>)

\* f'test_{model_name.replace(".", "_")}_{i}'
SynthName(i) == Str(<<"test_">> \o Replace1(ModelName, ".", <<"_">>) \o <<"_", ToString(i)>>)

(***************************************************************************)
(* AIGenerator._extract_scenarios                                          *)
(***************************************************************************)
\* a faulty variant of ValidRobotCode that keeps a blank body as it is
KeepRobotCode(sc, robot_code) == robot_code

\* "if not robot_code.strip()": the placeholder replaces a blank body
ValidRobotCode(sc, robot_code) ==
    IF IsBlank(robot_code)
    THEN PlaceholderBody(ToText(Get(sc, <<"name">>, Str(<<"Test">>))),
                         ToText(Get(sc, <<"description">>, Str(<<"Generated test">>))))
    ELSE robot_code

\* one cleaned scenario from the dict sc at 1-based position i
CleanScenario(sc, i) ==
    [name        |-> Get(sc, <<"name">>, SynthName(i)),
     test_id     |-> Get(sc, <<"test_id">>, SynthTestId(i)),
     description |-> Get(sc, <<"description">>, Str(<<>>)),
     category    |-> Get(sc, <<"category">>, Str(<<"functional">>)),
     steps       |-> Get(sc, <<"steps">>, Arr(<<>>)),
     robot_code  |-> ValidRobotCode(sc, UnescapeBody(Get(sc, <<"robot_code">>, Str(<<>>)).s))]

\* whether cleaning the dict sc raises: robot_code.replace on a non-string
BodyRaises(sc) == Get(sc, <<"robot_code">>, Str(<<>>)).t # "str"

RECURSIVE CleanAll(_, _, _)
\* the loop "for i, sc in enumerate(scenarios, 1)" over a list
CleanAll(items, i, acc) ==
    IF i > Len(items) THEN acc
    ELSE IF items[i].t = "obj"
         THEN CleanAll(items, i + 1, Append(acc, CleanScenario(items[i], i)))
         ELSE CleanAll(items, i + 1, acc)

CleanList(items, how) ==
    IF \E i \in 1..Len(items) : items[i].t = "obj" /\ BodyRaises(items[i])
    THEN Raised                                      \* .replace: AttributeError
    ELSE Returned(CleanAll(items, 1, <<>>), how)

\* iterating a string yields characters and iterating a dict yields keys,
\* none of them a dict; a number or None cannot be iterated
CleanValue(scenarios, how) ==
    IF scenarios.t = "arr" THEN CleanList(scenarios.items, how)
    ELSE IF scenarios.t \in {"str", "obj"} THEN Returned(<<>>, how)
    ELSE Raised                                      \* enumerate: TypeError

ExtractScenarios(data, how) ==
    IF data.t # "obj" THEN Raised                    \* data.get: AttributeError
    ELSE CleanValue(Get(data, <<"test_scenarios">>, Get(data, <<"test_cases">>, Arr(<<>>))),
                    how)

(***************************************************************************)
(* AIGenerator._fix_robot_code_newlines                                    *)
(***************************************************************************)
RECURSIVE ClosingQuote(_, _)
\* the position where the scan for the closing quote stops (Len(s)+1: none)
ClosingQuote(s, quote_end) ==
    IF quote_end > Len(s) THEN quote_end
    ELSE IF s[quote_end] = BS /\ quote_end + 1 <= Len(s) THEN ClosingQuote(s, quote_end + 2)
    ELSE IF s[quote_end] = QT THEN quote_end
    ELSE ClosingQuote(s, quote_end + 1)

RECURSIVE EscapeContent(_, _)
\* the inner loop over content, from position j
EscapeContent(content, j) ==
    IF j > Len(content) THEN <<>>
    ELSE IF content[j] = BS /\ j + 1 <= Len(content)
         THEN <<content[j], content[j + 1]>> \o EscapeContent(content, j + 2)
    ELSE IF content[j] = NL  THEN <<BS, "n">> \o EscapeContent(content, j + 1)
    ELSE IF content[j] = CR  THEN <<BS, "r">> \o EscapeContent(content, j + 1)
    ELSE IF content[j] = TAB THEN <<BS, "t">> \o EscapeContent(content, j + 1)
    ELSE <<content[j]>> \o EscapeContent(content, j + 1)

RECURSIVE FixFrom(_, _)

\* the value between quote_start and quote_end, rewritten
FixValue(s, i, robot_idx, quote_start, quote_end) ==
    Slice(s, i, robot_idx - 1) \o RobotKey \o <<COLON, SP, QT>>
        \o EscapeContent(Slice(s, quote_start + 1, quote_end - 1), 1) \o <<QT>>
        \o FixFrom(s, quote_end + 1)

\* after the whitespace that follows the colon
FixQuote(s, i, robot_idx, quote_start) ==
    IF quote_start > Len(s) \/ s[quote_start] # QT
    THEN Slice(s, i, robot_idx - 1) \o Slice(s, robot_idx, quote_start)
             \o FixFrom(s, quote_start + 1)
    ELSE FixValue(s, i, robot_idx, quote_start, ClosingQuote(s, quote_start + 1))

FixColon(s, i, robot_idx, colon_idx) ==
    IF colon_idx = 0 THEN Slice(s, i, robot_idx - 1) \o Slice(s, robot_idx, Len(s))
    ELSE FixQuote(s, i, robot_idx, SkipWs(s, colon_idx + 1))

FixKey(s, i, robot_idx) ==
    IF robot_idx = 0 THEN Slice(s, i, Len(s))
    ELSE FixColon(s, i, robot_idx, Find(s, <<COLON>>, robot_idx))

\* what the outer loop appends to result from position i on
FixFrom(s, i) == IF i > Len(s) THEN <<>> ELSE FixKey(s, i, Find(s, RobotKey, i))

FixRobotCodeNewlines(json_str) == FixFrom(json_str, 1)

\* One iteration of the outer loop of _fix_robot_code_newlines from position
\* i: the text it appends, the position it leaves in i, and whether it ends
\* the loop with break
FixStepValue(s, i, robot_idx, quote_start, quote_end) ==
    [text |-> Slice(s, i, robot_idx - 1) \o RobotKey \o <<COLON, SP, QT>>
                  \o EscapeContent(Slice(s, quote_start + 1, quote_end - 1), 1) \o <<QT>>,
     next |-> quote_end + 1, brk |-> FALSE]

\* a faulty variant of FixStepQuote that resumes at the key it just found
FixStepQuoteAtKey(s, i, robot_idx, quote_start) ==
    IF quote_start > Len(s) \/ s[quote_start] # QT
    THEN [text |-> Slice(s, i, robot_idx - 1) \o Slice(s, robot_idx, quote_start),
          next |-> robot_idx, brk |-> FALSE]
    ELSE FixStepValue(s, i, robot_idx, quote_start, ClosingQuote(s, quote_start + 1))

FixStepQuote(s, i, robot_idx, quote_start) ==
    IF quote_start > Len(s) \/ s[quote_start] # QT
    THEN [text |-> Slice(s, i, robot_idx - 1) \o Slice(s, robot_idx, quote_start),
          next |-> quote_start + 1, brk |-> FALSE]
    ELSE FixStepValue(s, i, robot_idx, quote_start, ClosingQuote(s, quote_start + 1))

FixStepColon(s, i, robot_idx, colon_idx) ==
    IF colon_idx = 0
    THEN [text |-> Slice(s, i, robot_idx - 1) \o Slice(s, robot_idx, Len(s)),
          next |-> i, brk |-> TRUE]
    ELSE FixStepQuote(s, i, robot_idx, SkipWs(s, colon_idx + 1))

FixStepKey(s, i, robot_idx) ==
    IF robot_idx = 0 THEN [text |-> Slice(s, i, Len(s)), next |-> i, brk |-> TRUE]
    ELSE FixStepColon(s, i, robot_idx, Find(s, <<COLON>>, robot_idx))

FixStep(s, i) == FixStepKey(s, i, Find(s, RobotKey, i))

(***************************************************************************)
(* AIGenerator._extract_scenarios_by_regex                                 *)
(***************************************************************************)
\* the width of the window searched for a body after a match
Window == 2000

NoMatch == [ok |-> FALSE]

\* "key"\s*:\s*" at position q: the position of the opening quote, 0 when the
\* text does not match
OpenQuote(s, q, key) ==
    IF ~MatchAt(s, q, Key(key)) \/ Expect(s, q + 3, COLON) = 0 THEN 0
    ELSE Expect(s, Expect(s, q + 3, COLON) + 1, QT)

\* ([^"]{least,})" after the opening quote at o: the closing quote is at e
Group(s, o, e, least) ==
    IF e = 0 \/ e - (o + 1) < least THEN NoMatch
    ELSE [ok |-> TRUE, group |-> Slice(s, o + 1, e - 1), last |-> e]

Quoted(s, o, least) ==
    IF o = 0 THEN NoMatch ELSE Group(s, o, Find(s, <<QT>>, o + 1), least)

\* "key"\s*:\s*"([^"]{least,})" at position q
KeyValueAt(s, q, key, least) == Quoted(s, OpenQuote(s, q, key), least)

\* [^}]*? : no closing brace at positions a..b
NoBrace(s, a, b) == \A k \in a..b : s[k] # RB

\* the positions q >= from that the lazy [^}]*? can reach and where key matches
Reach(s, from, key, least) ==
    {q \in from..Len(s) : NoBrace(s, from, q - 1) /\ KeyValueAt(s, q, key, least).ok}

\* the three groups of one match
PatternMatch(p, n, t, d) ==
    [ok |-> TRUE, start |-> p, last |-> d.last,
     name |-> n.group, test_id |-> t.group, description |-> d.group]

PatternDescription(s, p, n, t) ==
    PatternMatch(p, n, t,
                 KeyValueAt(s, Min(Reach(s, t.last + 1, "description", 0)), "description", 0))

\* whether "description" can follow the "test_id" found at q
DescriptionFollows(s, q) ==
    Reach(s, KeyValueAt(s, q, "test_id", 1).last + 1, "description", 0) # {}

PatternTestId(s, p, n, ids) ==
    IF ids = {} THEN NoMatch
    ELSE PatternDescription(s, p, n, KeyValueAt(s, Min(ids), "test_id", 1))

PatternName(s, p, n) ==
    IF ~n.ok THEN NoMatch
    ELSE PatternTestId(s, p, n,
                       {q \in Reach(s, n.last + 1, "test_id", 1) : DescriptionFollows(s, q)})

\* the whole pattern at position p:
\* "name"...[^}]*?"test_id"...[^}]*?"description"...
PatternAt(s, p) == PatternName(s, p, KeyValueAt(s, p, "name", 1))

\* "(?=\s*[,}]): the closing quotes a body opened at o may end at
BodyEnds(chunk, o) ==
    {e \in (o + 1)..Len(chunk) :
        chunk[e] = QT /\ (Expect(chunk, e + 1, COMMA) # 0 \/ Expect(chunk, e + 1, RB) # 0)}

\* (.*?) : up to the first of these closing quotes
BodyGroup(chunk, o) == [ok |-> TRUE, group |-> Slice(chunk, o + 1, Min(BodyEnds(chunk, o)) - 1)]

BodyAt(chunk, starts) ==
    IF starts = {} THEN NoMatch ELSE BodyGroup(chunk, OpenQuote(chunk, Min(starts), "robot_code"))

\* "robot_code"\s*:\s*"(.*?)"(?=\s*[,}]) searched in chunk: the leftmost match
RobotMatch(chunk) ==
    BodyAt(chunk, {r \in 1..Len(chunk) :
                      /\ OpenQuote(chunk, r, "robot_code") # 0
                      /\ BodyEnds(chunk, OpenQuote(chunk, r, "robot_code")) # {}})

\* robot_match.group(1) if robot_match else ''
GroupOrEmpty(found) == IF found.ok THEN found.group ELSE <<>>

RegexBody(m, robot_code) ==
    IF IsBlank(robot_code) THEN PlaceholderBody(m.name, m.description) ELSE robot_code

\* the scenario built from one match m of the pattern
RegexScenario(s, m) ==
    [name        |-> Str(m.name),
     test_id     |-> Str(m.test_id),
     description |-> Str(m.description),
     category    |-> Str(<<"functional">>),
     steps       |-> Arr(<<>>),
     robot_code  |-> RegexBody(m, UnescapeBody(GroupOrEmpty(
                         RobotMatch(Slice(s, m.start, m.last + Window)))))]

RECURSIVE FindIter(_, _, _)

NextMatch(s, acc, m) == FindIter(s, m.last + 1, Append(acc, RegexScenario(s, m)))

FirstMatch(s, acc, hits) ==
    IF hits = {} THEN acc ELSE NextMatch(s, acc, PatternAt(s, Min(hits)))

\* re.finditer: the non-overlapping matches from position from on
FindIter(s, from, acc) == FirstMatch(s, acc, {p \in from..Len(s) : PatternAt(s, p).ok})

ExtractScenariosByRegex(json_str) == FindIter(json_str, 1, <<>>)

(***************************************************************************)
(* AIGenerator._truncate_to_valid_json                                     *)
(***************************************************************************)
NotFound == [found |-> FALSE]

\* the candidate cut at last_brace, closed mechanically
CloseBrackets(test_str) ==
    test_str \o Repeat(RK, Count(test_str, LK) - Count(test_str, RK))
             \o Repeat(RB, Count(test_str, LB) - Count(test_str, RB))

RECURSIVE TruncateFrom(_, _)

TruncateTry(s, last_brace, test_str) ==
    IF JsonLoads(test_str).ok THEN [found |-> TRUE, text |-> test_str]
    ELSE TruncateFrom(s, RFind(s, RB, last_brace))

\* the while loop; position 1 is Python's index 0, where the loop stops
TruncateFrom(s, last_brace) ==
    IF last_brace <= 1 THEN NotFound
    ELSE TruncateTry(s, last_brace, CloseBrackets(Take(s, last_brace)))

TruncateToValidJson(json_str) == TruncateFrom(json_str, RFind(json_str, RB, Len(json_str) + 1))

\* One iteration of the loop of _truncate_to_valid_json at last_brace: the
\* candidate it returns, or the position it continues from
TruncateStepTry(s, last_brace, test_str) ==
    IF JsonLoads(test_str).ok THEN [found |-> TRUE, text |-> test_str, next |-> last_brace]
    ELSE [found |-> FALSE, next |-> RFind(s, RB, last_brace)]

TruncateStep(s, last_brace) == TruncateStepTry(s, last_brace, CloseBrackets(Take(s, last_brace)))

(***************************************************************************)
(* AIGenerator._try_parse_json_with_repair                                 *)
(***************************************************************************)
\* Strategy 4: truncation repair
StrategyTruncate(cut) ==
    IF cut.found THEN ExtractScenarios(JsonLoads(cut.text).val, "truncate")
    ELSE Returned(<<>>, "exhausted")

\* Strategy 3: regex salvage
StrategyRegex(json_str, scenarios) ==
    IF scenarios # <<>> THEN Returned(scenarios, "regex")
    ELSE StrategyTruncate(TruncateToValidJson(json_str))

\* Strategy 2: control-character repair
StrategyRepair(json_str, data) ==
    IF data.ok THEN ExtractScenarios(data.val, "repair")
    ELSE StrategyRegex(json_str, ExtractScenariosByRegex(json_str))

\* Strategy 1: direct parse
StrategyDirect(json_str, data) ==
    IF data.ok THEN ExtractScenarios(data.val, "direct")
    ELSE StrategyRepair(json_str, JsonLoads(FixRobotCodeNewlines(json_str)))

TryParseJsonWithRepair(json_str) == StrategyDirect(json_str, JsonLoads(json_str))

(***************************************************************************)
(* AIGenerator._parse_code_test_response                                   *)
(***************************************************************************)
\* the positions of the fences that can close a block opened at i
Closers(text, i) == {k \in (i + 1)..Len(text) : text[k] \in {FENCE, FENCE_JSON}}

FencedBlock(text, blocks) ==
    IF blocks = {} THEN <<>>
    ELSE Strip(Slice(text, Min(blocks) + 1, Min(Closers(text, Min(blocks))) - 1))

\* Method 1, the fenced block: fence json \s*(.*?)\s* fence; <<>> when absent
FencedJson(text) ==
    FencedBlock(text, {i \in 1..Len(text) : text[i] = FENCE_JSON /\ Closers(text, i) # {}})

\* whether the keys occur in this order strictly between positions a and z
KeysBetween(text, keys, a, z) ==
    \E k \in (a + 1)..(z - 3) :
        /\ MatchAt(text, k, Key(keys[1]))
        /\ Len(keys) = 1 \/ \E k2 \in (k + 3)..(z - 3) : MatchAt(text, k2, Key(keys[2]))

BraceSpanOf(text, keys, opens, closes) ==
    IF opens = {} \/ closes = {} \/ ~KeysBetween(text, keys, Min(opens), Max(closes)) THEN <<>>
    ELSE Slice(text, Min(opens), Max(closes))

\* Methods 2 and 3, \{[\s\S]*<keys in order>[\s\S]*\} : from the first opening
\* brace to the last closing brace, when the keys occur in between
BraceSpan(text, keys) ==
    BraceSpanOf(text, keys, {i \in 1..Len(text) : text[i] = LB},
                            {i \in 1..Len(text) : text[i] = RB})

\* "if not json_str": the next method is tried when one finds nothing
FirstFound(m1, m2, m3) == IF m1 # <<>> THEN m1 ELSE IF m2 # <<>> THEN m2 ELSE m3

\* the text handed to the repair strategies; <<>> when no JSON is found
FindJson(text) ==
    FirstFound(FencedJson(text), BraceSpan(text, <<"test_scenarios">>),
               BraceSpan(text, <<"name", "robot_code">>))

ParseJsonStr(json_str) ==
    IF json_str = <<>> THEN Returned(<<>>, "nojson") ELSE TryParseJsonWithRepair(json_str)

ParseCodeTestResponse(text) == ParseJsonStr(FindJson(text))

(***************************************************************************)
(* QACodeScanner._extract_field_info and _extract_model_info               *)
(*                                                                         *)
(* A class body is a sequence of assignments "target = fields.attr(args,   *)
(* keywords)".  A keyword is a pair <<name, value>>; an option list is the *)
(* sequence of the keys of its tuples.                                     *)
(***************************************************************************)
FieldCall(target, attr, args, keywords) ==
    [target |-> target, attr |-> attr, args |-> args, keywords |-> keywords]

\* the value of the last keyword named kw, or default
Keyword(call, kw, default) ==
    LET hits == {i \in 1..Len(call.keywords) : call.keywords[i][1] = kw}
    IN  IF hits = {} THEN default ELSE call.keywords[Max(hits)][2]

\* only the keyword selection=[...] is read; a positional option list is not
ExtractFieldInfo(call) ==
    [name      |-> call.target,
     type      |-> call.attr,
     required  |-> Keyword(call, "required", FALSE),
     selection |-> Keyword(call, "selection", <<>>)]

RECURSIVE ScanBody(_, _, _)
\* the loop over class_node.body: fields, has_workflow and states
ScanBody(body, i, acc) ==
    IF i > Len(body) THEN acc
    ELSE LET field_info == ExtractFieldInfo(body[i])
             is_state   == field_info.name = "state" /\ field_info.type = "Selection"
         IN  ScanBody(body, i + 1,
                      [fields       |-> Append(acc.fields, field_info),
                       has_workflow |-> IF is_state THEN TRUE ELSE acc.has_workflow,
                       states       |-> IF is_state THEN field_info.selection ELSE acc.states])

ExtractModelInfo(body) ==
    ScanBody(body, 1, [fields |-> <<>>, has_workflow |-> FALSE, states |-> <<>>])

(***************************************************************************)
(* QACodeScanner._extract_method_info, _extract_model_info (class level),  *)
(* _parse_python_models, analyze_module                                    *)
(*                                                                         *)
(* The items of a class body besides field calls: "target = constant",     *)
(* "target = [tuples]", a function definition with the attribute names of  *)
(* its decorators, and a nested class.  A name is a sequence of lexemes    *)
(* whose first lexeme is its prefix ("" when it has none).                 *)
(***************************************************************************)
AssignConst(target, value)   == [target |-> target, value |-> value]
AssignList(target, elts)     == [target |-> target, elts |-> elts]
FunctionDef(name, decorator_list, constrained) ==
    [def |-> name, decorator_list |-> decorator_list, constrained |-> constrained]
ClassDef(body)               == [class_body |-> body]

IsAssignConst(item) == "value" \in DOMAIN item
IsAssignList(item)  == "elts" \in DOMAIN item
IsCall(item)        == "attr" \in DOMAIN item
IsFunctionDef(item) == "def" \in DOMAIN item
IsClassDef(item)    == "class_body" \in DOMAIN item

\* Python's None as the result of _extract_model_info
None == [none |-> TRUE]
\* an identifier that is None or empty: "not model_name" holds for both
NoName == ""

\* name.startswith(prefix), for the prefixes the code tests
StartsWith(name, prefix) ==
    CASE prefix = "_"        -> name[1] \in {"_", "_compute"}
      [] prefix = "_compute" -> name[1] = "_compute"
      [] OTHER               -> name[1] = prefix

HasDecorator(func_node, attr) ==
    \E i \in 1..Len(func_node.decorator_list) : func_node.decorator_list[i] = attr

ExtractMethodInfo(func_node) ==
    [name          |-> func_node.def,
     is_private    |-> StartsWith(func_node.def, "_") /\ ~StartsWith(func_node.def, "_compute"),
     is_action     |-> StartsWith(func_node.def, "action_") \/ StartsWith(func_node.def, "button_"),
     is_compute    |-> HasDecorator(func_node, "depends") \/ StartsWith(func_node.def, "_compute"),
     is_onchange   |-> HasDecorator(func_node, "onchange"),
     is_constraint |-> HasDecorator(func_node, "constrains")]

\* the value of the last "target = constant" of the body, NoName when absent
LastConst(body, target) ==
    LET hits == {i \in 1..Len(body) : IsAssignConst(body[i]) /\ body[i].target = target}
    IN  IF hits = {} THEN NoName ELSE body[Max(hits)].value

\* the value the last "_inherit = ..." of the body leaves in inherit: the
\* constant, or ', '.join of the list (lists of at most one name are
\* modelled: the name itself, the empty string for the empty list)
LastInherit(body) ==
    LET hits == {i \in 1..Len(body) :
                    (IsAssignConst(body[i]) \/ IsAssignList(body[i])) /\ body[i].target = "_inherit"}
    IN  IF hits = {} THEN NoName
        ELSE IF IsAssignConst(body[Max(hits)]) THEN body[Max(hits)].value
        ELSE IF body[Max(hits)].elts = <<>> THEN NoName
        ELSE body[Max(hits)].elts[1]

\* methods.append(method_info) for every function definition, in order
Methods(body) ==
    LET Acc[i \in 0..Len(body)] ==
            IF i = 0 THEN <<>>
            ELSE IF IsFunctionDef(body[i]) THEN Append(Acc[i - 1], ExtractMethodInfo(body[i]))
            ELSE Acc[i - 1]
    IN  Acc[Len(body)]

\* constraints.append(...) for every function decorated with constrains
Constraints(body) ==
    LET Acc[i \in 0..Len(body)] ==
            IF i = 0 THEN <<>>
            ELSE IF IsFunctionDef(body[i]) /\ HasDecorator(body[i], "constrains")
                 THEN Append(Acc[i - 1], [name |-> body[i].def, fields |-> body[i].constrained])
            ELSE Acc[i - 1]
    IN  Acc[Len(body)]

\* sql_constraints.append(...) for every tuple of every _sql_constraints list
SqlConstraints(body) ==
    LET Acc[i \in 0..Len(body)] ==
            IF i = 0 THEN <<>>
            ELSE IF IsAssignList(body[i]) /\ body[i].target = "_sql_constraints"
                 THEN Acc[i - 1] \o [k \in 1..Len(body[i].elts) |->
                                        [name |-> body[i].elts[k][1],
                                         message |-> body[i].elts[k][3]]]
            ELSE Acc[i - 1]
    IN  Acc[Len(body)]

\* the field calls of the body, in order
Calls(body) == SelectSeq(body, IsCall)

\* the dictionary _extract_model_info returns for a class with an identifier
ModelInfoOf(body, model_name, inherit, of_fields) ==
    [name            |-> IF model_name # NoName THEN model_name ELSE inherit,
     inherit         |-> IF model_name # NoName THEN inherit ELSE NoName,
     fields          |-> of_fields.fields,
     methods         |-> Methods(body),
     constraints     |-> Constraints(body),
     sql_constraints |-> SqlConstraints(body),
     has_workflow    |-> of_fields.has_workflow,
     states          |-> of_fields.states]

\* "if not model_name and not inherit: return None"
NamedModelInfo(body, model_name, inherit) ==
    IF model_name = NoName /\ inherit = NoName THEN None
    ELSE ModelInfoOf(body, model_name, inherit, ExtractModelInfo(Calls(body)))

\* _extract_model_info on a class node
ModelInfo(class_node) ==
    NamedModelInfo(class_node.class_body, LastConst(class_node.class_body, "_name"),
                   LastInherit(class_node.class_body))

\* the classes nested directly in the bodies of the given classes
NestedClasses(classes) ==
    LET Acc[i \in 0..Len(classes)] ==
            IF i = 0 THEN <<>>
            ELSE Acc[i - 1] \o SelectSeq(classes[i].class_body, IsClassDef)
    IN  Acc[Len(classes)]

RECURSIVE Walk(_)
\* the ClassDef nodes ast.walk yields: breadth first, every nesting level
Walk(classes) == IF classes = <<>> THEN <<>> ELSE classes \o Walk(NestedClasses(classes))

\* models.append(model_info) for every class with an identifier
ModelsOf(classes) ==
    LET Acc[i \in 0..Len(classes)] ==
            IF i = 0 THEN <<>>
            ELSE IF ModelInfo(classes[i]) # None THEN Append(Acc[i - 1], ModelInfo(classes[i]))
            ELSE Acc[i - 1]
    IN  Acc[Len(classes)]

\* a behavior file: whether ast.parse accepts it, its top-level classes, and
\* how often the text "_name = '...'" occurs in it
PyFile(ok, classes, name_count) == [ok |-> ok, classes |-> classes, name_count |-> name_count]

\* a faulty variant of ParsePythonModels that lets the error of ast.parse out
ParsePythonModelsUncaught(py_file) ==
    IF ~py_file.ok THEN [raised |-> TRUE, models |-> <<>>]
    ELSE [raised |-> FALSE, models |-> ModelsOf(Walk(py_file.classes))]

\* _parse_python_models: [raised, models]; the except branch absorbs the
\* error of ast.parse and returns the list, still empty
ParsePythonModels(py_file) ==
    IF ~py_file.ok THEN [raised |-> FALSE, models |-> <<>>]
    ELSE [raised |-> FALSE, models |-> ModelsOf(Walk(py_file.classes))]

RECURSIVE AnalyzeFiles(_, _, _)
\* the loop of analyze_module over the files of the models directory
AnalyzeFiles(files, i, acc) ==
    IF i > Len(files) THEN [raised |-> FALSE, models |-> acc]
    ELSE IF ParsePythonModels(files[i]).raised THEN [raised |-> TRUE, models |-> <<>>]
    ELSE AnalyzeFiles(files, i + 1, acc \o ParsePythonModels(files[i]).models)

\* analyze_module on the behavior files of one module
AnalyzeModule(files) == AnalyzeFiles(files, 1, <<>>)

(***************************************************************************)
(* CodeAnalyzer._analyze_class: the identifier under which the methods and *)
(* fields of a class are recorded                                          *)
(***************************************************************************)
\* model_name after the statement item of the class body; a list gives its
\* first element, and an empty list leaves model_name as it is
AssignedName(model_name, item) ==
    IF IsAssignConst(item) /\ item.target \in {"_name", "_inherit"} THEN item.value
    ELSE IF IsAssignList(item) /\ item.target = "_inherit" /\ item.elts # <<>> THEN item.elts[1]
    ELSE model_name

\* the loop over class_node.body; NoName: the class is skipped
AnalyzeClass(body) ==
    LET Acc[i \in 0..Len(body)] ==
            IF i = 0 THEN NoName ELSE AssignedName(Acc[i - 1], body[i])
    IN  Acc[Len(body)]

(***************************************************************************)
(* CodeAnalyzer._simplify_condition, _node_to_string, _op_to_string and    *)
(* _extract_validations                                                    *)
(*                                                                         *)
(* An expression is a record tagged by its ast class; a rendering is a     *)
(* sequence of lexemes.                                                    *)
(***************************************************************************)
Name(id)               == [ast |-> "Name", id |-> id]
Constant(repr)         == [ast |-> "Constant", repr |-> repr]
Attribute(value, attr) == [ast |-> "Attribute", value |-> value, attr |-> attr]
Subscript(value)       == [ast |-> "Subscript", value |-> value]
Call(func)             == [ast |-> "Call", func |-> func]
Compare(left, ops, comparators) ==
    [ast |-> "Compare", left |-> left, ops |-> ops, comparators |-> comparators]
Not(operand)           == [ast |-> "UnaryOp", operand |-> operand]
BoolOp(bool_op, values) == [ast |-> "BoolOp", bool_op |-> bool_op, values |-> values]
\* no statement analysed yet
NoNode == [ast |-> "none"]

RECURSIVE NodeToString(_)
NodeToString(node) ==
    CASE node.ast = "Constant"  -> <<node.repr>>
      [] node.ast = "Name"      -> <<node.id>>
      [] node.ast = "Attribute" -> NodeToString(node.value) \o <<".", node.attr>>
      [] node.ast = "Subscript" -> NodeToString(node.value) \o <<"[...]">>
      [] OTHER                  -> <<"?">>

\* the table of _op_to_string; the operators are named by their text
OpTable == {"==", "!=", "<", "<=", ">", ">=", "is", "is not", "in", "not in"}
OpToString(cmp_op) == IF cmp_op \in OpTable THEN cmp_op ELSE "?"

\* a returned string, and the return value None
Rendered(text) == [some |-> TRUE, text |-> text]
NotRendered    == [some |-> FALSE, text |-> <<>>]

\* str(value) inside an f-string: None prints as 'None'
Formatted(r) == IF r.some THEN r.text ELSE <<"None">>

\* " op ".join(filter(None, parts)): None and the empty string are dropped
JoinTruthy(parts, sep) ==
    LET Acc[i \in 0..Len(parts)] ==
            IF i = 0 THEN <<>>
            ELSE IF ~parts[i].some \/ parts[i].text = <<>> THEN Acc[i - 1]
            ELSE IF Acc[i - 1] = <<>> THEN parts[i].text
            ELSE Acc[i - 1] \o <<sep>> \o parts[i].text
    IN  Acc[Len(parts)]

RECURSIVE SimplifyCondition(_)
SimplifyCondition(node) ==
    CASE node.ast = "Compare" ->
             Rendered(NodeToString(node.left) \o <<" ", OpToString(node.ops[1]), " ">>
                          \o NodeToString(node.comparators[1]))
      [] node.ast = "UnaryOp" ->
             Rendered(<<"not ">> \o Formatted(SimplifyCondition(node.operand)))
      [] node.ast = "BoolOp" ->
             Rendered(JoinTruthy([i \in 1..Len(node.values) |-> SimplifyCondition(node.values[i])],
                                 IF node.bool_op = "And" THEN " and " ELSE " or "))
      [] node.ast \in {"Attribute", "Name"} -> Rendered(NodeToString(node))
      [] OTHER -> NotRendered

\* "if condition: validations.append(...)" for one if statement
ExtractValidation(recorded, condition) ==
    IF condition.some /\ condition.text # <<>> THEN Append(recorded, condition.text)
    ELSE recorded

(***************************************************************************)
(* AIGenerator._generate_fallback_tests                                    *)
(***************************************************************************)
\* model_name.replace('.', '_')
ModelVar == Replace1(ModelName, ".", <<"_">>)

\* one step dictionary
Step(name, action, expected) ==
    Obj(<< <<<<"name">>, Str(name)>>, <<<<"action">>, Str(action)>>,
           <<<<"expected">>, Str(expected)>> >>)

\* [f['name'] for f in analysis_data.get('fields', []) if f.get('required')]
RequiredFields(data) ==
    LET Sel[i \in 0..Len(data.fields)] ==
            IF i = 0 THEN <<>>
            ELSE IF data.fields[i].required THEN Append(Sel[i - 1], data.fields[i].name)
            ELSE Sel[i - 1]
    IN  Sel[Len(data.fields)]

CrudTest ==
    [name        |-> Str(<<"test_create_">> \o ModelVar \o <<"_basic">>),
     test_id     |-> Str(<<"TC001">>),
     description |-> Str(<<"Basic create test for ">> \o ModelName),
     category    |-> Str(<<"crud">>),
     steps       |-> Arr(<<Step(<<"Create record">>, <<"create">>, <<"Record created">>)>>),
     robot_code  |-> <<"*** Test Cases ***", NL, "Test Create ">> \o ModelName
                         \o <<" Basic", NL, "    Create Record    ">> \o ModelName \o <<NL>>]

ValidationTest(required_fields) ==
    [name        |-> Str(<<"test_create_">> \o ModelVar \o <<"_required_fields">>),
     test_id     |-> Str(<<"TC002">>),
     description |-> Str(<<"Test required fields for ">> \o ModelName),
     category    |-> Str(<<"validation">>),
     steps       |-> Arr(<<Step(<<"Create without required">>, <<"create">>, <<"Should fail">>)>>),
     robot_code  |-> <<"*** Test Cases ***", NL, "    [Documentation]    Verify requires: ">>
                         \o Join(required_fields, ", ")
                         \o <<NL, "    Run Keyword And Expect Error    *", NL>>]

\* reads states[0]: only called with a non-empty list.  Of the script bodies
\* of the three tests the model keeps the lines that depend on the entity
WorkflowTest(states) ==
    [name        |-> Str(<<"test_">> \o ModelVar \o <<"_workflow">>),
     test_id     |-> Str(<<"TC003">>),
     description |-> Str(<<"Test workflow for ">> \o ModelName),
     category    |-> Str(<<"workflow">>),
     steps       |-> Arr(<<Step(<<"Check initial state">>, <<"verify">>,
                                <<"State is ", states[1]>>)>>),
     robot_code  |-> <<"*** Test Cases ***", NL, "    [Documentation]    Verify workflow states: ">>
                         \o Join(states, " -> ")
                         \o <<NL, "    Should Be Equal    ${state}    ", states[1], NL>>]

\* the workflow test reads states[0]
WithWorkflow(data, tests) ==
    IF ~data.has_workflow THEN Returned(tests, "fallback")
    ELSE IF data.states = <<>> THEN Raised            \* states[0]: IndexError
    ELSE Returned(Append(tests, WorkflowTest(data.states)), "fallback")

WithValidation(tests, required_fields) ==
    IF required_fields # <<>> THEN Append(tests, ValidationTest(required_fields)) ELSE tests

GenerateFallbackTests(data) ==
    WithWorkflow(data, WithValidation(<<CrudTest>>, RequiredFields(data)))

(***************************************************************************)
(* AIGenerator.generate_test_scenarios_from_code                           *)
(***************************************************************************)
\* the try block after _call_api returned: an exception of the parser or of
\* the fallback generator reaches the except branch, which calls the
\* fallback generator (again)
TryBlock(parsed, fallback, limit) ==
    IF parsed.raised THEN fallback
    ELSE IF parsed.scenarios # <<>> THEN Returned(Take(parsed.scenarios, limit), parsed.strategy)
    ELSE IF fallback.raised THEN fallback
    ELSE Returned(Take(fallback.scenarios, limit), "fallback")

\* call_ok: whether _call_api returned; text: what it returned
GenerateTestScenariosFromCode(data, call_ok, text, limit) ==
    IF ~call_ok THEN GenerateFallbackTests(data)      \* the except branch
    ELSE TryBlock(ParseCodeTestResponse(text), GenerateFallbackTests(data), limit)

(***************************************************************************)
(* AIGenerator._build_code_analysis_prompt                                 *)
(*                                                                         *)
(* The document is kept as its variable parts: the text of each of the     *)
(* four sections, the category lines and max_tests; a text is a sequence   *)
(* of lexemes.  A list printed inside a line (options, depends_fields,     *)
(* constrained fields) is one lexeme.                                      *)
(***************************************************************************)
BULLET == "  - "
ARROW  == " -> "

\* one line of fields_info
FieldLine(field) ==
    <<BULLET, field.name, ": ", field.type>>
    \o (IF field.required THEN <<" (REQUIRED)">> ELSE <<>>)
    \o (IF field.selection # <<>> THEN <<" (options: ", field.selection, ")">> ELSE <<>>)
    \o <<NL>>

FieldsInfo(data) ==
    LET Acc[i \in 0..Len(data.fields)] ==
            IF i = 0 THEN <<>> ELSE Acc[i - 1] \o FieldLine(data.fields[i])
    IN  Acc[Len(data.fields)]

\* one line of methods_info
MethodLine(method) ==
    <<BULLET, method.name, "()">>
    \o (IF method.is_action THEN <<" [BUTTON/ACTION]">> ELSE <<>>)
    \o (IF method.is_compute THEN <<" [COMPUTE: ", "depends_fields", "]">> ELSE <<>>)
    \o (IF method.is_onchange THEN <<" [ONCHANGE: ", "onchange_fields", "]">> ELSE <<>>)
    \o (IF method.is_constraint THEN <<" [CONSTRAINT]">> ELSE <<>>)
    \o <<NL>>

\* only methods that are not private, or compute methods, are listed
MethodsInfo(data) ==
    LET Acc[i \in 0..Len(data.methods)] ==
            IF i = 0 THEN <<>>
            ELSE IF ~data.methods[i].is_private \/ data.methods[i].is_compute
                 THEN Acc[i - 1] \o MethodLine(data.methods[i])
            ELSE Acc[i - 1]
    IN  Acc[Len(data.methods)]

PythonConstraintLines(data) ==
    LET Acc[i \in 0..Len(data.constraints)] ==
            IF i = 0 THEN <<>>
            ELSE Acc[i - 1] \o <<BULLET, data.constraints[i].name, ": validates ",
                                 data.constraints[i].fields, NL>>
    IN  Acc[Len(data.constraints)]

SqlConstraintLines(data) ==
    LET Acc[i \in 0..Len(data.sql_constraints)] ==
            IF i = 0 THEN <<>>
            ELSE Acc[i - 1] \o <<BULLET, "SQL: ", data.sql_constraints[i].name, " - ",
                                 data.sql_constraints[i].message, NL>>
    IN  Acc[Len(data.sql_constraints)]

ConstraintsInfo(data) == PythonConstraintLines(data) \o SqlConstraintLines(data)

\* f"States: {' -> '.join(states)}\n" when has_workflow, else ""
WorkflowInfo(data) ==
    IF data.has_workflow THEN <<"States: ">> \o Join(data.states, ARROW) \o <<NL>> ELSE <<>>

NoFieldsFound      == <<"  No fields found">>
NoMethodsFound     == <<"  No public methods found">>
NoConstraintsFound == <<"  No constraints found">>
NoWorkflowFound    == <<"  No workflow (no state field)">>

\* "info or placeholder": the placeholder stands for the empty string
OrPlaceholder(info, placeholder) == IF info = <<>> THEN placeholder ELSE info

\* the names of the five include flags, in the order the categories are
\* appended
IncludeFlags == <<"crud", "validation", "workflow", "security", "negative">>

CategoryLines(include) ==
    LET Acc[i \in 0..Len(IncludeFlags)] ==
            IF i = 0 THEN <<>>
            ELSE IF IncludeFlags[i] \in include THEN Append(Acc[i - 1], IncludeFlags[i])
            ELSE Acc[i - 1]
    IN  Acc[Len(IncludeFlags)]

\* include: the set of the include flags that are set
BuildCodeAnalysisPrompt(data, include, limit) ==
    [built       |-> TRUE,
     fields      |-> OrPlaceholder(FieldsInfo(data), NoFieldsFound),
     methods     |-> OrPlaceholder(MethodsInfo(data), NoMethodsFound),
     constraints |-> OrPlaceholder(ConstraintsInfo(data), NoConstraintsFound),
     workflow    |-> OrPlaceholder(WorkflowInfo(data), NoWorkflowFound),
     categories  |-> CategoryLines(include),
     max_tests   |-> limit]

(***************************************************************************)
(* Inputs: completion texts                                                *)
(***************************************************************************)
\* how many lexemes a truncated completion may lack at its end
MaxCut == 30
\* how many field assignments a class body may hold
MaxFields == 2
\* the values of max_tests below the default
MaxTestsRange == 3
\* max_tests=25, the default of the request
DefaultMaxTests == 25

RECURSIVE Concat(_, _)
\* the texts of parts joined by sep
Concat(parts, sep) ==
    IF parts = <<>> THEN <<>>
    ELSE IF Len(parts) = 1 THEN parts[1]
    ELSE parts[1] \o sep \o Concat(Tail(parts), sep)

Lit(content)    == <<QT>> \o content \o <<QT>>
Member(k, lit)  == Key(k) \o <<COLON>> \o lit
ObjLit(members) == <<LB>> \o Concat(members, <<COMMA>>) \o <<RB>>
ArrLit(items)   == <<LK>> \o Concat(items, <<COMMA>>) \o <<RK>>

\* the contents of body strings, as written between the quotes
BodyPlain     == <<"X">>
BodyEscNl     == <<"line1", BS, "n", "line2">>
BodyRawNl     == <<"line1", NL, "line2">>
BodyRawTab    == <<"line1", TAB, "line2">>
BodyRawCr     == <<"line1", CR, NL, "line2">>
BodyEscTab    == <<"line1", BS, "t", "line2">>
BodyEmpty     == <<>>
BodySpace     == <<SP, SP>>
BodyEscNlOnly == <<BS, "n">>
BodyQuote     == <<"Log", SP, BS, QT, "a", BS, QT, COMMA, SP, "b">>

WellFormedBodies == {BodyPlain, BodyEscNl, BodyEscTab, BodyQuote}
RawBodies        == {BodyRawNl, BodyRawTab, BodyRawCr}
BlankBodies      == {BodyEmpty, BodySpace, BodyEscNlOnly}

NameM(n)  == Member("name", Lit(n))
IdM(i)    == Member("test_id", Lit(i))
DescM     == Member("description", Lit(<<"d">>))
CatM(c)   == Member("category", Lit(c))
StepsM    == Member("steps", ArrLit(<<>>))
StepsOneM == Member("steps", ArrLit(<<ObjLit(<<NameM(<<"s">>)>>)>>))
BodyM(b)  == Member("robot_code", Lit(b))

\* a scenario object with every field, in the order the prompt asks for
Scn(n, i, b) == ObjLit(<<NameM(n), IdM(i), DescM, CatM(<<"crud">>), StepsM, BodyM(b)>>)
ScnA(b) == Scn(<<"a">>, <<"TC001">>, b)
ScnB(b) == Scn(<<"b">>, <<"TC002">>, b)

\* scenario objects with name, test_id, description in order and a string body
OrderedScenarioLists ==
    {<<ScnA(b)>> : b \in WellFormedBodies \cup RawBodies \cup BlankBodies}
    \cup {<<ScnA(BodyPlain), ScnB(b)>> : b \in {BodyPlain, BodyEscNl, BodyRawNl}}
    \cup {<<ScnA(BodyRawNl), ScnB(BodyRawNl)>>,
          <<Scn(<<"robot_code">>, <<"TC001">>, BodyRawNl)>>,
          <<Scn(<<"robot_code">>, <<"TC001">>, BodyEscNl)>>,
          <<ScnA(BodyPlain),
            ObjLit(<<NameM(<<"b">>), IdM(<<"TC002">>), DescM, StepsOneM, BodyM(BodyPlain)>>)>>,
          <<ObjLit(<<NameM(<<"a">>), IdM(<<"TC001">>), DescM, CatM(<<SP>>), BodyM(BodyPlain)>>)>>,
          <<ObjLit(<<NameM(<<"a">>), IdM(<<"TC001">>), DescM, BodyM(BodyPlain)>>)>>}

\* scenario objects that lack a field, or hold a value of another type
OtherScenarioLists ==
    {<<ObjLit(<<NameM(<<"a">>), IdM(<<"TC002">>), BodyM(BodyPlain)>>),
       ObjLit(<<NameM(<<"b">>), BodyM(BodyPlain)>>)>>,
     <<ObjLit(<<NameM(<<"a">>), CatM(<<"crud">>), StepsM, BodyM(BodyPlain)>>),
       ScnB(BodyPlain)>>,
     <<ObjLit(<<NameM(<<"a">>), IdM(<<"TC001">>), DescM, CatM(<<"crud">>)>>),
       ScnB(BodyPlain)>>,
     <<ObjLit(<<BodyM(BodyRawNl)>>)>>,
     <<ObjLit(<<NameM(<<"a">>), Member("robot_code", <<"null">>)>>)>>,
     <<<<"1">>, ObjLit(<<NameM(<<"a">>), BodyM(BodyPlain)>>)>>,
     <<>>}

ScenarioLists == OrderedScenarioLists \cup OtherScenarioLists

\* {"test_scenarios":[ ... ]}
Payload(scs) == ObjLit(<<Member("test_scenarios", ArrLit(scs))>>)

\* the payload with a stray comma after its last scenario
CommaPayload(scs) ==
    ObjLit(<<Member("test_scenarios", <<LK>> \o Concat(scs, <<COMMA>>) \o <<COMMA, RK>>)>>)

\* payloads that are valid JSON of an unexpected shape
OddPayloads ==
    {ArrLit(<<<<"1">>>>), <<"5">>, Lit(<<"ab">>), ObjLit(<<>>),
     ObjLit(<<Member("test_scenarios", <<"5">>)>>),
     ObjLit(<<Member("test_scenarios", <<"null">>)>>),
     ObjLit(<<Member("test_scenarios", Lit(<<"ab">>))>>),
     ObjLit(<<Member("test_scenarios", ObjLit(<<NameM(<<"a">>)>>))>>),
     ObjLit(<<Member("test_cases", ArrLit(<<ScnA(BodyPlain)>>))>>),
     ObjLit(<<Member("tests", ArrLit(<<ScnA(BodyPlain)>>))>>)}

\* the payload cut k lexemes before its end
Cut(p, k) == Take(p, Len(p) - k)

Bare(p)       == p
Fenced(p)     == <<FENCE_JSON, NL>> \o p \o <<NL, FENCE>>
OpenFenced(p) == <<FENCE_JSON, NL>> \o p
InProse(p)    == <<"Here", SP, "are", SP, "tests", COLON, NL>> \o p \o <<NL, "Done">>

NoJsonTexts == {<<"Sorry", COMMA, SP, "no", SP, "tests">>, <<>>,
                <<FENCE_JSON, NL, FENCE>>}

CompletePayloads ==
    {Payload(scs) : scs \in ScenarioLists}
    \cup {CommaPayload(scs) : scs \in ScenarioLists \ {<<>>}}
    \cup OddPayloads

CutPayloads ==
    {Cut(Payload(scs), k) : scs \in ScenarioLists, k \in 1..MaxCut}

\* the completion texts handed to the parser
Texts ==
    {Bare(p) : p \in CompletePayloads \cup CutPayloads}
    \cup {Fenced(p) : p \in CompletePayloads \cup CutPayloads}
    \cup {InProse(p) : p \in CompletePayloads}
    \cup {OpenFenced(p) : p \in CutPayloads}
    \cup NoJsonTexts

\* the completion texts a request receives from _call_api
ApiTexts ==
    {Bare(Payload(scs)) : scs \in ScenarioLists}
    \cup {Fenced(p) : p \in OddPayloads}
    \cup {Bare(CommaPayload(<<ScnA(BodyPlain), ScnB(BodyPlain)>>)),
          Bare(Cut(Payload(<<ScnA(BodyPlain), ScnB(BodyPlain)>>), 9))}
    \cup NoJsonTexts

(***************************************************************************)
(* Inputs: class bodies                                                    *)
(***************************************************************************)
States == <<"draft", "confirmed">>

FieldCalls ==
    {FieldCall("name", "Char", <<>>, << <<"required", TRUE>> >>),
     FieldCall("name", "Char", <<>>, <<>>),
     FieldCall("state", "Selection", <<>>, << <<"selection", States>> >>),
     FieldCall("state", "Selection", <<States>>, << <<"required", TRUE>> >>),
     FieldCall("state", "Char", <<>>, <<>>)}

ClassBodies == UNION {[1..n -> FieldCalls] : n \in 0..MaxFields}

(***************************************************************************)
(* QACodeScanner.discover_modules, QACodeScan.action_scan_repository and   *)
(* action_analyze_modules                                                  *)
(*                                                                         *)
(* A repository is the sequence of its candidate directories, each with a  *)
(* path, whether it holds __manifest__.py, and the behavior files of its   *)
(* models directory.                                                       *)
(***************************************************************************)
\* error_message = False: no error recorded
NoError == ""

Directory(path, manifest, files) == [path |-> path, manifest |-> manifest, files |-> files]

\* _count_models: the occurrences of "_name = '...'" in the files
CountModels(files) ==
    LET Sum[i \in 0..Len(files)] == IF i = 0 THEN 0 ELSE Sum[i - 1] + files[i].name_count
    IN  Sum[Len(files)]

\* modules.append(...) for every directory that holds a manifest
DiscoverModules(repo) ==
    LET Acc[i \in 0..Len(repo)] ==
            IF i = 0 THEN <<>>
            ELSE IF repo[i].manifest
                 THEN Append(Acc[i - 1], [name |-> repo[i].path, path |-> repo[i].path,
                                          model_count |-> CountModels(repo[i].files)])
            ELSE Acc[i - 1]
    IN  Acc[Len(repo)]

\* suite_id = False: the module record points at no suite
NoSuite == 0
\* scanned_module_id = False: the suite points at no module record
NoModule == ""

\* the qa.scanned.module record made of one discovered module; state and
\* suite_id take their defaults.  test_counts holds the test_count of each
\* analysis record of the module
ModuleRecord(mod_data) ==
    [technical_name |-> mod_data.name, path |-> mod_data.path,
     model_count |-> mod_data.model_count, selected |-> mod_data.model_count > 0,
     state |-> "discovered", analysis_ids |-> <<>>, test_counts |-> <<>>,
     suite_id |-> NoSuite]

\* the behavior files under repo_path/path; none when the path does not exist
FilesAt(repo, path) ==
    LET hits == {i \in 1..Len(repo) : repo[i].path = path}
    IN  IF hits = {} THEN <<>> ELSE repo[Min(hits)].files

\* a faulty variant of Except that records the message and leaves the state
ExceptKeepsState(record, message) == [record EXCEPT !.error_message = message]

\* "except Exception as e: self.error_message = str(e); self.state = 'error'"
Except(record, message) == [record EXCEPT !.state = "error", !.error_message = message]

\* the scan record when the try block of action_scan_repository starts
Scanning(record) == [record EXCEPT !.state = "scanning", !.error_message = NoError]

\* the try block of action_scan_repository once the clone succeeded;
\* create_ok: whether creating the module records succeeds
ScanCloned(scanning, modules, create_ok) ==
    IF modules # <<>> /\ ~create_ok
    THEN Except([scanning EXCEPT !.module_ids = <<>>], "create failed")
    ELSE [scanning EXCEPT !.state = "scanned",
                          !.module_ids = [i \in 1..Len(modules) |-> ModuleRecord(modules[i])]]

\* the module record after its analysis records were replaced
Analyzed(module, analysis) ==
    [module EXCEPT !.state = "analyzed", !.analysis_ids = analysis.models,
                   !.test_counts = [j \in 1..Len(analysis.models) |-> 0]]

RECURSIVE AnalyzeSelected(_, _, _, _, _)
\* the loop "for module in selected" of action_analyze_modules from record i
\* on; fail_at: the selected module whose clone fails (0: none); cloned: how
\* many clones succeeded so far
AnalyzeSelected(repo, module_ids, i, fail_at, cloned) ==
    IF i > Len(module_ids)
    THEN [failed |-> FALSE, module_ids |-> module_ids, message |-> NoError, cloned |-> cloned]
    ELSE IF ~module_ids[i].selected THEN AnalyzeSelected(repo, module_ids, i + 1, fail_at, cloned)
    ELSE IF fail_at = cloned + 1
         THEN [failed |-> TRUE, module_ids |-> module_ids,
               message |-> "Git clone failed", cloned |-> cloned]
    ELSE IF AnalyzeModule(FilesAt(repo, module_ids[i].path)).raised
         THEN [failed |-> TRUE, module_ids |-> module_ids,
               message |-> "parse failed", cloned |-> cloned + 1]
    ELSE AnalyzeSelected(repo,
                         [module_ids EXCEPT ![i] =
                             Analyzed(module_ids[i],
                                      AnalyzeModule(FilesAt(repo, module_ids[i].path)))],
                         i + 1, fail_at, cloned + 1)

\* the scan record when the try block of action_analyze_modules ends: r is
\* what the loop over the selected modules left
AnalyzeEnd(analyzing, r) ==
    IF r.failed THEN Except([analyzing EXCEPT !.module_ids = r.module_ids], r.message)
    ELSE [analyzing EXCEPT !.state = "analyzed", !.module_ids = r.module_ids]

\* self.module_ids.filtered('selected')
Selected(module_ids) == SelectSeq(module_ids, LAMBDA m : m.selected)

(***************************************************************************)
(* Inputs: repositories                                                    *)
(***************************************************************************)
\* how many behavior files a models directory may hold
MaxFiles == 2
\* how many candidate directories a repository may hold
MaxModules == 2

NameField     == FieldCall("name", "Char", <<>>, << <<"required", TRUE>> >>)
ConfirmMethod == FunctionDef(<<"action_", "confirm">>, <<>>, <<>>)
CheckMethod   == FunctionDef(<<"_", "check_name">>, <<"constrains">>, <<"name">>)
TotalMethod   == FunctionDef(<<"_compute", "_total">>, <<"depends">>, <<>>)
UniqueName    == AssignList("_sql_constraints", << <<"name_uniq", "unique(name)", "Name exists">> >>)

\* class A: _name = 'a' with one field
ClassA == ClassDef(<<AssignConst("_name", "a"), NameField>>)
\* class B nested in a class: _name = 'b'
ClassB == ClassDef(<<AssignConst("_name", "b")>>)
\* a class that extends a: _inherit = 'a'
ClassExtA == ClassDef(<<AssignConst("_inherit", "a"), ConfirmMethod>>)
\* a class with neither identifier
ClassPlain == ClassDef(<<NameField, ConfirmMethod>>)
\* a class that assigns a field twice and defines a method twice
ClassTwice ==
    ClassDef(<<AssignConst("_name", "c"), NameField, NameField, ConfirmMethod, ConfirmMethod,
               CheckMethod, TotalMethod, UniqueName>>)

BehaviorFiles ==
    {PyFile(FALSE, <<>>, 1), PyFile(FALSE, <<>>, 0),
     PyFile(TRUE, <<ClassA>>, 1),
     PyFile(TRUE, <<ClassDef(<<AssignConst("_name", "a"), NameField, ClassB>>), ClassPlain>>, 2),
     PyFile(TRUE, <<ClassExtA, ClassPlain>>, 0),
     PyFile(TRUE, <<ClassTwice>>, 1)}

FileLists == UNION {[1..n -> BehaviorFiles] : n \in 0..MaxFiles}

\* the first directory of a repository: any layout
FirstDirectories ==
    {Directory("m1", FALSE, <<>>)} \cup {Directory("m1", TRUE, files) : files \in FileLists}

\* the further directories of a repository
MoreDirectories(path) ==
    {Directory(path, FALSE, <<>>), Directory(path, TRUE, <<PyFile(TRUE, <<ClassA>>, 1)>>),
     Directory(path, TRUE, <<PyFile(FALSE, <<>>, 1)>>)}

DirectoryPaths == <<"m1", "m2", "m3", "m4">>

RECURSIVE RepositoriesOf(_)
\* the repositories of n directories
RepositoriesOf(n) ==
    IF n = 1 THEN {<<d>> : d \in FirstDirectories}
    ELSE {Append(repo, d) : repo \in RepositoriesOf(n - 1), d \in MoreDirectories(DirectoryPaths[n])}

Repositories == {<<>>} \cup UNION {RepositoriesOf(n) : n \in 1..MaxModules}

(***************************************************************************)
(* The state machine                                                       *)
(***************************************************************************)
NoResult == Returned(<<>>, "none")

\* no handler of the scan was called yet
NoCall == [action |-> "none", raised |-> FALSE, failed |-> FALSE]

\* a scan session as created: state 'draft', no module records
NewScan == [state |-> "draft", module_ids |-> <<>>, error_message |-> NoError]

\* no document built yet
NoPrompt == [built |-> FALSE]

Init ==
    /\ op = "init"
    /\ class_body = <<>>
    /\ analysis_data = ExtractModelInfo(<<>>)
    /\ response = <<>>
    /\ api_ok = TRUE
    /\ max_tests = DefaultMaxTests
    /\ result = NoResult
    /\ repository = <<>>
    /\ scan = NewScan
    /\ temp_dirs = 0
    /\ prompt = NoPrompt
    /\ pos = 1
    /\ out = <<>>
    /\ test_node = NoNode
    /\ validations = <<>>
    /\ suites = {}
    /\ test_cases = {}
    /\ next_id = 1
    /\ last = NoCall

\* QACodeScanner._extract_model_info on one class
Analyze ==
    /\ op = "init"
    /\ \E body \in ClassBodies :
        /\ class_body' = body
        /\ analysis_data' = ExtractModelInfo(body)
    /\ op' = "analyze"
    /\ UNCHANGED <<response, api_ok, max_tests, result>>
    /\ UNCHANGED scan_vars
    /\ UNCHANGED prompt_vars
    /\ UNCHANGED repair_vars
    /\ UNCHANGED cond_vars
    /\ UNCHANGED flow_vars

\* AIGenerator._parse_code_test_response on one completion text
Parse ==
    /\ op = "init"
    /\ \E text \in Texts :
        /\ response' = text
        /\ result' = ParseCodeTestResponse(text)
    /\ op' = "parse"
    /\ UNCHANGED <<class_body, analysis_data, api_ok, max_tests>>
    /\ UNCHANGED scan_vars
    /\ UNCHANGED prompt_vars
    /\ UNCHANGED repair_vars
    /\ UNCHANGED cond_vars
    /\ UNCHANGED flow_vars

\* AIGenerator._generate_fallback_tests on the analysed entity
Fallback ==
    /\ op = "analyze"
    /\ result' = GenerateFallbackTests(analysis_data)
    /\ op' = "fallback"
    /\ UNCHANGED <<class_body, analysis_data, response, api_ok, max_tests>>
    /\ UNCHANGED scan_vars
    /\ UNCHANGED prompt_vars
    /\ UNCHANGED repair_vars
    /\ UNCHANGED cond_vars
    /\ UNCHANGED flow_vars

\* AIGenerator.generate_test_scenarios_from_code on the analysed entity
Generate ==
    /\ op = "analyze"
    /\ \E call_ok \in BOOLEAN, text \in ApiTexts,
          limit \in (1..MaxTestsRange) \cup {DefaultMaxTests} :
        /\ (~call_ok => text = <<>>)
        /\ api_ok' = call_ok
        /\ response' = text
        /\ max_tests' = limit
        /\ result' = GenerateTestScenariosFromCode(analysis_data, call_ok, text, limit)
    /\ op' = "generate"
    /\ UNCHANGED <<class_body, analysis_data>>
    /\ UNCHANGED scan_vars
    /\ UNCHANGED prompt_vars
    /\ UNCHANGED repair_vars
    /\ UNCHANGED cond_vars
    /\ UNCHANGED flow_vars

Next == Analyze \/ Parse \/ Fallback \/ Generate

Spec == Init /\ [][Next]_vars


(***************************************************************************)
(* The scan workflow: QACodeScan.action_scan_repository,                   *)
(* action_analyze_modules, action_generate_tests, action_scan_and_generate,*)
(* action_reset_draft and QAScannedModule.action_reset_module              *)
(*                                                                         *)
(* A world is what the handlers read and write: the scan record, the       *)
(* directories fetch_repository left, and the suites and test cases of the *)
(* database.  A handler maps a world to an outcome: the world it leaves,   *)
(* whether an exception left the handler (raised) and whether one reached  *)
(* its except branch (failed).  A module record is identified by its path. *)
(***************************************************************************)
\* how many directories of fetch_repository may exist when a handler starts
MaxTempDirs == 4
\* the highest record id the database may have handed out when
\* action_generate_tests starts
MaxRecords == 8

World(s, t, su, tc, n) ==
    [scan |-> s, temp_dirs |-> t, suites |-> su, test_cases |-> tc, next_id |-> n]

Outcome(w, raised, failed) == [world |-> w, raised |-> raised, failed |-> failed]

\* what a loop inside a try block left, and the error that ended it
Loop(w, failed, message) == [world |-> w, failed |-> failed, message |-> message]

\* a qa.test.suite record
Suite(id, module_path, code_scan) ==
    [id |-> id, scanned_module_id |-> module_path, code_scan_id |-> code_scan]

\* a qa.test.case record
TestCase(id, suite_id, code_scan, category) ==
    [id |-> id, suite_id |-> suite_id, code_scan_id |-> code_scan, category |-> category]

\* QATestCase.category: the values of the selection
AcceptedCategories ==
    {Str(<<"functional">>), Str(<<"integration">>), Str(<<"regression">>),
     Str(<<"smoke">>), Str(<<"e2e">>)}

\* ondelete='set null' of qa.test.suite.scanned_module_id when the module
\* records are unlinked
SetNull(su, module_ids) ==
    {IF \E i \in 1..Len(module_ids) : module_ids[i].path = s.scanned_module_id
     THEN [s EXCEPT !.scanned_module_id = NoModule] ELSE s : s \in su}

\* action_scan_repository; clone_ok: whether git clone succeeds.
\* fetch_repository removes its directory when the clone fails and returns
\* it otherwise
ScanRepository(w, repo, clone_ok, create_ok) ==
    IF ~clone_ok
    THEN Outcome([w EXCEPT !.scan = Except(Scanning(w.scan), "Git clone failed")], FALSE, TRUE)
    ELSE Outcome([w EXCEPT !.scan = ScanCloned(Scanning(w.scan), DiscoverModules(repo), create_ok),
                           !.temp_dirs = @ + 1,
                           !.suites = SetNull(@, w.scan.module_ids)],
                 FALSE, DiscoverModules(repo) # <<>> /\ ~create_ok)

\* the end of action_analyze_modules; r: what the loop left.  It clones the
\* repository once for every selected module
AnalyzeDone(w, r) ==
    Outcome([w EXCEPT !.scan = AnalyzeEnd([w.scan EXCEPT !.state = "analyzing"], r),
                      !.temp_dirs = @ + r.cloned],
            FALSE, r.failed)

\* action_analyze_modules; the raise for "no module selected" comes before
\* the state is set
AnalyzeModules(w, repo, fail_at) ==
    IF Selected(w.scan.module_ids) = <<>> THEN Outcome(w, TRUE, FALSE)
    ELSE AnalyzeDone(w, AnalyzeSelected(repo, w.scan.module_ids, 1, fail_at, 0))

RECURSIVE CreateTestCases(_, _, _, _)
\* "for scenario in scenarios": one qa.test.case per scenario from scenario
\* k on; a category outside the selection makes create raise
CreateTestCases(w, scenarios, k, suite_id) ==
    IF k > Len(scenarios) THEN Loop(w, FALSE, NoError)
    ELSE IF scenarios[k].category \notin AcceptedCategories
         THEN Loop(w, TRUE, "Wrong value for qa.test.case.category")
    ELSE CreateTestCases(
             [w EXCEPT !.test_cases = @ \cup {TestCase(w.next_id, suite_id, "this",
                                                       scenarios[k].category)},
                       !.next_id = @ + 1],
             scenarios, k + 1, suite_id)

\* "analysis.test_count = len(scenarios)" for analysis j of module i
StoreCount(c, i, j, n) ==
    IF c.failed THEN c ELSE [c EXCEPT !.world.scan.module_ids[i].test_counts[j] = n]

\* the body of "for analysis in module.analysis_ids"; r: what
\* generate_test_scenarios_from_code returned or raised
GenerateForAnalysis(w, i, j, suite_id, r) ==
    IF r.raised THEN Loop(w, TRUE, "list index out of range")
    ELSE StoreCount(CreateTestCases(w, r.scenarios, 1, suite_id), i, j, Len(r.scenarios))

RECURSIVE GenerateForAnalyses(_, _, _, _, _)
RECURSIVE NextAnalysis(_, _, _, _, _)
\* "for analysis in module.analysis_ids" from analysis j on; reply: what
\* _call_api does on every call of this run; max_tests_per_model keeps its
\* default
GenerateForAnalyses(w, i, j, suite_id, reply) ==
    IF j > Len(w.scan.module_ids[i].analysis_ids) THEN Loop(w, FALSE, NoError)
    ELSE NextAnalysis(
             GenerateForAnalysis(w, i, j, suite_id,
                 GenerateTestScenariosFromCode(w.scan.module_ids[i].analysis_ids[j],
                                               reply.call_ok, reply.text, DefaultMaxTests)),
             i, j, suite_id, reply)

NextAnalysis(c, i, j, suite_id, reply) ==
    IF c.failed THEN c ELSE GenerateForAnalyses(c.world, i, j + 1, suite_id, reply)

\* "module.state = 'generated'"; module.suite_id is not assigned
ModuleDone(c, i) ==
    IF c.failed THEN c ELSE [c EXCEPT !.world.scan.module_ids[i].state = "generated"]

\* the body of "for module in analyzed_modules": the suite of the module is
\* created first
GenerateForModule(w, i, reply) ==
    ModuleDone(
        GenerateForAnalyses(
            [w EXCEPT !.suites = @ \cup {Suite(w.next_id, w.scan.module_ids[i].path, "this")},
                      !.next_id = @ + 1],
            i, 1, w.next_id, reply),
        i)

\* self.module_ids.filtered(lambda m: m.selected and m.state == 'analyzed')
AnalyzedModules(module_ids) ==
    SelectSeq(module_ids, LAMBDA m : m.selected /\ m.state = "analyzed")

RECURSIVE GenerateForModules(_, _, _)
RECURSIVE NextModule(_, _, _)
\* "for module in analyzed_modules" from module record i on
GenerateForModules(w, i, reply) ==
    IF i > Len(w.scan.module_ids) THEN Loop(w, FALSE, NoError)
    ELSE IF ~(w.scan.module_ids[i].selected /\ w.scan.module_ids[i].state = "analyzed")
         THEN GenerateForModules(w, i + 1, reply)
    ELSE NextModule(GenerateForModule(w, i, reply), i, reply)

NextModule(c, i, reply) ==
    IF c.failed THEN c ELSE GenerateForModules(c.world, i + 1, reply)

\* the end of action_generate_tests; c: what the loop left
GenerateDone(c) ==
    Outcome([c.world EXCEPT !.scan = IF c.failed THEN Except(c.world.scan, c.message)
                                     ELSE [c.world.scan EXCEPT !.state = "done"]],
            FALSE, c.failed)

\* action_generate_tests; the raise for "no analyzed module" comes before
\* the state is set
GenerateTests(w, reply) ==
    IF AnalyzedModules(w.scan.module_ids) = <<>> THEN Outcome(w, TRUE, FALSE)
    ELSE GenerateDone(GenerateForModules([w EXCEPT !.scan.state = "generating"], 1, reply))

\* action_scan_and_generate after action_analyze_modules
AfterAnalyze(o, reply) ==
    IF o.raised THEN o
    ELSE IF o.world.scan.state = "analyzed" THEN GenerateTests(o.world, reply)
    ELSE o

\* action_scan_and_generate after action_scan_repository
AfterScan(o, repo, fail_at, reply) ==
    IF o.world.scan.state = "scanned"
    THEN AfterAnalyze(AnalyzeModules(o.world, repo, fail_at), reply)
    ELSE o

\* action_scan_and_generate
ScanAndGenerate(w, repo, clone_ok, create_ok, fail_at, reply) ==
    AfterScan(ScanRepository(w, repo, clone_ok, create_ok), repo, fail_at, reply)

\* action_reset_draft
ResetDraft(w) ==
    Outcome([w EXCEPT !.scan.state = "draft", !.scan.error_message = NoError], FALSE, FALSE)

\* action_reset_module on module record i, in state 'generated':
\* search([('suite_id', '=', record.suite_id.id)]).unlink(), the suite
\* unlinked "if record.suite_id", the test counts written 0
ResetModule(w, i) ==
    Outcome([w EXCEPT
                !.test_cases = {t \in @ : t.suite_id # w.scan.module_ids[i].suite_id},
                !.suites = {s \in @ : \/ w.scan.module_ids[i].suite_id = NoSuite
                                      \/ s.id # w.scan.module_ids[i].suite_id},
                !.scan.module_ids[i] =
                    [@ EXCEPT !.state = "analyzed", !.suite_id = NoSuite,
                              !.test_counts = [j \in 1..Len(@) |-> 0]],
                !.scan.state = IF @ = "done" THEN "analyzed" ELSE @],
            FALSE, FALSE)

\* what _call_api does during one run of action_generate_tests: it raises,
\* or it returns one scenario that names no category
GenerateReplies ==
    {[call_ok |-> FALSE, text |-> <<>>],
     [call_ok |-> TRUE,
      text |-> Bare(Payload(<<ObjLit(<<NameM(<<"a">>), IdM(<<"TC001">>), DescM,
                                       BodyM(BodyPlain)>>)>>))]}

\* the world of the current state
Current == World(scan, temp_dirs, suites, test_cases, next_id)

\* the handler called name ends with outcome o
Return(name, o) ==
    /\ scan' = o.world.scan
    /\ temp_dirs' = o.world.temp_dirs
    /\ suites' = o.world.suites
    /\ test_cases' = o.world.test_cases
    /\ next_id' = o.world.next_id
    /\ last' = [action |-> name, raised |-> o.raised, failed |-> o.failed]

InitScan ==
    /\ op = "init"
    /\ class_body = <<>>
    /\ analysis_data = ExtractModelInfo(<<>>)
    /\ response = <<>>
    /\ api_ok = TRUE
    /\ max_tests = DefaultMaxTests
    /\ result = NoResult
    /\ repository \in Repositories
    /\ scan = NewScan
    /\ temp_dirs = 0
    /\ prompt = NoPrompt
    /\ pos = 1
    /\ out = <<>>
    /\ test_node = NoNode
    /\ validations = <<>>
    /\ suites = {}
    /\ test_cases = {}
    /\ next_id = 1
    /\ last = NoCall

ActionScanRepository ==
    /\ temp_dirs < MaxTempDirs
    /\ \E clone_ok, create_ok \in BOOLEAN :
        /\ clone_ok \/ create_ok
        /\ Return("action_scan_repository",
                  ScanRepository(Current, repository, clone_ok, create_ok))
    /\ UNCHANGED repository
    /\ UNCHANGED gen_vars
    /\ UNCHANGED prompt_vars
    /\ UNCHANGED repair_vars
    /\ UNCHANGED cond_vars

ActionAnalyzeModules ==
    /\ temp_dirs < MaxTempDirs
    /\ \E fail_at \in 0..Len(Selected(scan.module_ids)) :
        Return("action_analyze_modules", AnalyzeModules(Current, repository, fail_at))
    /\ UNCHANGED repository
    /\ UNCHANGED gen_vars
    /\ UNCHANGED prompt_vars
    /\ UNCHANGED repair_vars
    /\ UNCHANGED cond_vars

\* one pass over a new scan: the scan of a scan in state 'draft'
ScanDraft == scan.state = "draft" /\ ActionScanRepository

\* one pass over a new scan: the analysis of a scan in state 'scanned'
AnalyzeScanned == scan.state = "scanned" /\ ActionAnalyzeModules

NextScan == ScanDraft \/ AnalyzeScanned

SpecScan == InitScan /\ [][NextScan]_vars



\* analysis_data = {} when analysis_json does not parse: every get() gives
\* its default
EmptyAnalysis ==
    [fields |-> <<>>, methods |-> <<>>, constraints |-> <<>>, sql_constraints |-> <<>>,
     has_workflow |-> FALSE, states |-> <<>>]

\* a state field declared with a literal list, and with a selection that is
\* not a literal list
StateField      == FieldCall("state", "Selection", <<>>, << <<"selection", States>> >>)
StateFieldNamed == FieldCall("state", "Selection", <<States>>, <<>>)

\* the classes whose descriptions a request is made for
PromptClasses ==
    {ClassA, ClassB, ClassExtA, ClassTwice,
     ClassDef(<<AssignConst("_name", "d"), StateField, ConfirmMethod>>),
     ClassDef(<<AssignConst("_name", "d"), NameField, StateFieldNamed>>),
     ClassDef(<<AssignConst("_name", "e"), CheckMethod>>),
     ClassDef(<<AssignConst("_name", "e"), TotalMethod, UniqueName>>)}

InitPrompt ==
    /\ op = "init"
    /\ class_body = <<>>
    /\ analysis_data \in {ModelInfo(c) : c \in PromptClasses} \cup {EmptyAnalysis}
    /\ response = <<>>
    /\ api_ok = TRUE
    /\ max_tests \in (1..MaxTestsRange) \cup {DefaultMaxTests}
    /\ result = NoResult
    /\ repository = <<>>
    /\ scan = NewScan
    /\ temp_dirs = 0
    /\ prompt = NoPrompt
    /\ pos = 1
    /\ out = <<>>
    /\ test_node = NoNode
    /\ validations = <<>>
    /\ suites = {}
    /\ test_cases = {}
    /\ next_id = 1
    /\ last = NoCall

\* AIGenerator._build_code_analysis_prompt for one request
BuildPrompt ==
    /\ op = "init"
    /\ \E include \in SUBSET {IncludeFlags[i] : i \in 1..Len(IncludeFlags)} :
        prompt' = BuildCodeAnalysisPrompt(analysis_data, include, max_tests)
    /\ op' = "prompt"
    /\ UNCHANGED <<class_body, analysis_data, response, api_ok, max_tests, result>>
    /\ UNCHANGED scan_vars
    /\ UNCHANGED repair_vars
    /\ UNCHANGED cond_vars
    /\ UNCHANGED flow_vars

NextPrompt == BuildPrompt

SpecPrompt == InitPrompt /\ [][NextPrompt]_vars


\* the payloads handed to the repair helpers
RepairInputs == CompletePayloads \cup CutPayloads \cup {<<>>}

InitRepair ==
    /\ op = "init"
    /\ class_body = <<>>
    /\ analysis_data = ExtractModelInfo(<<>>)
    /\ response \in RepairInputs
    /\ api_ok = TRUE
    /\ max_tests = DefaultMaxTests
    /\ result = NoResult
    /\ repository = <<>>
    /\ scan = NewScan
    /\ temp_dirs = 0
    /\ prompt = NoPrompt
    /\ pos = 1
    /\ out = <<>>
    /\ test_node = NoNode
    /\ validations = <<>>
    /\ suites = {}
    /\ test_cases = {}
    /\ next_id = 1
    /\ last = NoCall

\* one iteration of "while i < len(json_str)" of _fix_robot_code_newlines
FixIteration ==
    /\ op \in {"init", "fix"}
    /\ pos <= Len(response)
    /\ out' = out \o FixStep(response, pos).text
    /\ pos' = FixStep(response, pos).next
    /\ op' = IF FixStep(response, pos).brk THEN "fix_break" ELSE "fix"
    /\ UNCHANGED <<class_body, analysis_data, response, api_ok, max_tests, result>>
    /\ UNCHANGED scan_vars
    /\ UNCHANGED prompt_vars
    /\ UNCHANGED cond_vars
    /\ UNCHANGED flow_vars

\* return ''.join(result), after break or when the loop condition fails
FixReturn ==
    /\ \/ op = "fix_break"
       \/ op \in {"init", "fix"} /\ pos > Len(response)
    /\ result' = out
    /\ op' = "fixed"
    /\ UNCHANGED <<class_body, analysis_data, response, api_ok, max_tests>>
    /\ UNCHANGED scan_vars
    /\ UNCHANGED prompt_vars
    /\ UNCHANGED repair_vars
    /\ UNCHANGED cond_vars
    /\ UNCHANGED flow_vars

\* last_brace = json_str.rfind('}') of _truncate_to_valid_json
TruncateStart ==
    /\ op = "init"
    /\ pos' = RFind(response, RB, Len(response) + 1)
    /\ op' = "truncate"
    /\ UNCHANGED <<class_body, analysis_data, response, api_ok, max_tests, result, out>>
    /\ UNCHANGED scan_vars
    /\ UNCHANGED prompt_vars
    /\ UNCHANGED cond_vars
    /\ UNCHANGED flow_vars

\* one iteration of "while last_brace > 0"; position 1 is Python's index 0
TruncateIteration ==
    /\ op = "truncate"
    /\ pos > 1
    /\ IF TruncateStep(response, pos).found
       THEN /\ result' = TruncateStep(response, pos).text
            /\ op' = "truncated"
            /\ pos' = pos
       ELSE /\ pos' = TruncateStep(response, pos).next
            /\ op' = "truncate"
            /\ result' = result
    /\ UNCHANGED <<class_body, analysis_data, response, api_ok, max_tests, out>>
    /\ UNCHANGED scan_vars
    /\ UNCHANGED prompt_vars
    /\ UNCHANGED cond_vars
    /\ UNCHANGED flow_vars

\* return None when no candidate parsed
TruncateReturn ==
    /\ op = "truncate"
    /\ pos <= 1
    /\ result' = None
    /\ op' = "truncated"
    /\ UNCHANGED <<class_body, analysis_data, response, api_ok, max_tests>>
    /\ UNCHANGED scan_vars
    /\ UNCHANGED prompt_vars
    /\ UNCHANGED repair_vars
    /\ UNCHANGED cond_vars
    /\ UNCHANGED flow_vars

NextRepair == FixIteration \/ FixReturn \/ TruncateStart \/ TruncateIteration \/ TruncateReturn

SpecRepair == InitRepair /\ [][NextRepair]_vars


\* how many statements a declaration may hold
MaxItems == 3

\* the statements of a declaration that sets identifiers
IdentifierItems ==
    {AssignConst("_name", "a"), AssignConst("_inherit", "b"), AssignList("_inherit", <<"c">>),
     AssignList("_inherit", <<>>), NameField, ConfirmMethod}

InitClass ==
    /\ op = "init"
    /\ class_body \in UNION {[1..n -> IdentifierItems] : n \in 0..MaxItems}
    /\ analysis_data = ExtractModelInfo(<<>>)
    /\ response = <<>>
    /\ api_ok = TRUE
    /\ max_tests = DefaultMaxTests
    /\ result = NoResult
    /\ repository = <<>>
    /\ scan = NewScan
    /\ temp_dirs = 0
    /\ prompt = NoPrompt
    /\ pos = 1
    /\ out = <<>>
    /\ test_node = NoNode
    /\ validations = <<>>
    /\ suites = {}
    /\ test_cases = {}
    /\ next_id = 1
    /\ last = NoCall

\* QACodeScanner._extract_model_info on the declaration
ScannerAnalyze ==
    /\ op = "init"
    /\ analysis_data' = ModelInfo(ClassDef(class_body))
    /\ op' = "scanner"
    /\ UNCHANGED <<class_body, response, api_ok, max_tests, result>>
    /\ UNCHANGED scan_vars
    /\ UNCHANGED prompt_vars
    /\ UNCHANGED repair_vars
    /\ UNCHANGED cond_vars
    /\ UNCHANGED flow_vars

\* CodeAnalyzer._analyze_class on the declaration
AnalyzerAnalyze ==
    /\ op = "init"
    /\ analysis_data' = [name |-> AnalyzeClass(class_body)]
    /\ op' = "analyzer"
    /\ UNCHANGED <<class_body, response, api_ok, max_tests, result>>
    /\ UNCHANGED scan_vars
    /\ UNCHANGED prompt_vars
    /\ UNCHANGED repair_vars
    /\ UNCHANGED cond_vars
    /\ UNCHANGED flow_vars

NextClass == ScannerAnalyze \/ AnalyzerAnalyze

SpecClass == InitClass /\ [][NextClass]_vars


\* the operands of guard expressions
Operands ==
    {Name("amount"), Constant("0"), Attribute(Name("self"), "state"),
     Subscript(Name("vals")), Call(Name("len")), Attribute(Call(Name("f")), "id")}

Comparisons ==
    {Compare(l, <<o>>, <<r>>) : l \in Operands, o \in {"==", "in"}, r \in Operands}
    \cup {Compare(Name("a"), <<"<", "<">>, <<Name("b"), Name("c")>>)}

SimpleTests == Comparisons \cup Operands

\* the operands of a boolean operator
BoolOperands ==
    {Name("amount"), Call(Name("len")), Compare(Name("amount"), <<"<">>, <<Constant("0")>>),
     Compare(Call(Name("len")), <<"==">>, <<Constant("0")>>), Not(Call(Name("f")))}

TestNodes ==
    SimpleTests
    \cup {Not(t) : t \in SimpleTests}
    \cup {BoolOp(o, <<a, b>>) : o \in {"And", "Or"}, a \in BoolOperands, b \in BoolOperands}

InitCondition ==
    /\ op = "init"
    /\ class_body = <<>>
    /\ analysis_data = ExtractModelInfo(<<>>)
    /\ response = <<>>
    /\ api_ok = TRUE
    /\ max_tests = DefaultMaxTests
    /\ result = NoResult
    /\ repository = <<>>
    /\ scan = NewScan
    /\ temp_dirs = 0
    /\ prompt = NoPrompt
    /\ pos = 1
    /\ out = <<>>
    /\ test_node \in TestNodes
    /\ validations = <<>>
    /\ suites = {}
    /\ test_cases = {}
    /\ next_id = 1
    /\ last = NoCall

\* CodeAnalyzer._extract_validations on a method with one guarded raise
ExtractValidations ==
    /\ op = "init"
    /\ validations' = ExtractValidation(validations, SimplifyCondition(test_node))
    /\ op' = "validations"
    /\ UNCHANGED <<class_body, analysis_data, response, api_ok, max_tests, result, test_node>>
    /\ UNCHANGED scan_vars
    /\ UNCHANGED prompt_vars
    /\ UNCHANGED repair_vars
    /\ UNCHANGED flow_vars

NextCondition == ExtractValidations

SpecCondition == InitCondition /\ [][NextCondition]_vars

(***************************************************************************)
(* The scan workflow over a database that already holds records of other   *)
(* origin                                                                  *)
(***************************************************************************)
\* an entity with a state field whose options the scanner does not read
ClassWorkflow == ClassDef(<<AssignConst("_name", "w"), StateFieldNamed>>)

WorkflowRepositories ==
    {<<>>,
     <<Directory("m1", TRUE, <<>>)>>,
     <<Directory("m1", TRUE, <<PyFile(TRUE, <<ClassA>>, 1)>>)>>,
     <<Directory("m1", TRUE, <<PyFile(FALSE, <<>>, 1)>>)>>,
     <<Directory("m1", TRUE, <<PyFile(TRUE, <<ClassWorkflow>>, 1)>>)>>,
     <<Directory("m1", TRUE, <<PyFile(TRUE, <<ClassA>>, 1)>>),
       Directory("m2", TRUE, <<PyFile(FALSE, <<>>, 1)>>)>>}

\* a suite of another scan with one test case, and a test case that belongs
\* to no suite
OtherSuites == {Suite(1, NoModule, "other")}
OtherTestCases ==
    {TestCase(2, NoSuite, "none", Str(<<"functional">>)),
     TestCase(3, 1, "other", Str(<<"smoke">>))}

InitWorkflow ==
    /\ op = "init"
    /\ class_body = <<>>
    /\ analysis_data = ExtractModelInfo(<<>>)
    /\ response = <<>>
    /\ api_ok = TRUE
    /\ max_tests = DefaultMaxTests
    /\ result = NoResult
    /\ repository \in WorkflowRepositories
    /\ scan = NewScan
    /\ temp_dirs = 0
    /\ prompt = NoPrompt
    /\ pos = 1
    /\ out = <<>>
    /\ test_node = NoNode
    /\ validations = <<>>
    /\ suites = OtherSuites
    /\ test_cases = OtherTestCases
    /\ next_id = 4
    /\ last = NoCall

ActionGenerateTests ==
    /\ next_id <= MaxRecords
    /\ \E reply \in GenerateReplies :
        Return("action_generate_tests", GenerateTests(Current, reply))
    /\ UNCHANGED repository
    /\ UNCHANGED gen_vars
    /\ UNCHANGED prompt_vars
    /\ UNCHANGED repair_vars
    /\ UNCHANGED cond_vars

ActionScanAndGenerate ==
    /\ temp_dirs < MaxTempDirs
    /\ next_id <= MaxRecords
    /\ \E clone_ok, create_ok \in BOOLEAN, fail_at \in 0..Len(repository),
          reply \in GenerateReplies :
        /\ clone_ok \/ create_ok
        /\ Return("action_scan_and_generate",
                  ScanAndGenerate(Current, repository, clone_ok, create_ok, fail_at, reply))
    /\ UNCHANGED repository
    /\ UNCHANGED gen_vars
    /\ UNCHANGED prompt_vars
    /\ UNCHANGED repair_vars
    /\ UNCHANGED cond_vars

ActionResetDraft ==
    /\ Return("action_reset_draft", ResetDraft(Current))
    /\ UNCHANGED repository
    /\ UNCHANGED gen_vars
    /\ UNCHANGED prompt_vars
    /\ UNCHANGED repair_vars
    /\ UNCHANGED cond_vars

\* QAScannedModule.action_reset_module on one module record; a record in
\* another state is left alone
ActionResetModule ==
    /\ \E i \in 1..Len(scan.module_ids) :
        /\ scan.module_ids[i].state = "generated"
        /\ Return("action_reset_module", ResetModule(Current, i))
    /\ UNCHANGED repository
    /\ UNCHANGED gen_vars
    /\ UNCHANGED prompt_vars
    /\ UNCHANGED repair_vars
    /\ UNCHANGED cond_vars

NextWorkflow ==
    \/ ActionScanRepository
    \/ ActionAnalyzeModules
    \/ ActionGenerateTests
    \/ ActionScanAndGenerate
    \/ ActionResetDraft
    \/ ActionResetModule

SpecWorkflow == InitWorkflow /\ [][NextWorkflow]_vars

(***************************************************************************)
(* Properties                                                              *)
(***************************************************************************)
\* the categories of the returned scenarios, in order
Categories(r) == [i \in 1..Len(r.scenarios) |-> r.scenarios[i].category]

\* C1: every scenario the parser or the fallback generator returns has a
\* script body that is non-empty after stripping whitespace
C1_BodyNeverBlank ==
    op \in {"parse", "fallback"} =>
        \A i \in 1..Len(result.scenarios) : ~IsBlank(result.scenarios[i].robot_code)

\* C1's case: a payload parsed directly whose only scenario has a body of two
\* spaces, returned with the placeholder body
C1_BlankBodyReplaced ==
    /\ op = "parse"
    /\ response = Bare(Payload(<<ScnA(BodySpace)>>))
    /\ result.strategy = "direct"
    /\ Len(result.scenarios) = 1
    /\ result.scenarios[1].robot_code = PlaceholderBody(<<"a">>, <<"d">>)

\* C2: the parser returns a list and never raises, whatever the completion
\* text: also when the embedded JSON is an array, a string or a number, when a
\* body is null and when the test_scenarios value is no list
C2_ParserNeverRaises == op = "parse" => ~result.raised

\* C3: when the completion call fails or the parser returns the empty list,
\* the request does not fail and returns the fallback generator's scenarios
\* for the same entity (here: all of them, or their first max_tests)
C3_RequestFallsBack ==
    (/\ op = "generate"
     /\ \/ ~api_ok
        \/ ParseCodeTestResponse(response) \in
               {Returned(<<>>, how) : how \in {"direct", "repair", "exhausted", "nojson"}})
    => /\ ~result.raised
       /\ ~GenerateFallbackTests(analysis_data).raised
       /\ result.scenarios \in
              {GenerateFallbackTests(analysis_data).scenarios,
               Take(GenerateFallbackTests(analysis_data).scenarios, max_tests)}

\* C4: the fallback generator returns a scenario list without raising for
\* every entity description the analyzer produces
C4_FallbackNeverFails == op = "fallback" => ~result.raised

\* C5: the fallback output is exactly crud, then validation iff an attribute
\* is required, then workflow iff a state field is present
C5_FallbackExactOutput ==
    op = "fallback" =>
        /\ ~result.raised
        /\ Categories(result) =
               <<Str(<<"crud">>)>>
               \o (IF \E i \in 1..Len(analysis_data.fields) : analysis_data.fields[i].required
                   THEN <<Str(<<"validation">>)>> ELSE <<>>)
               \o (IF analysis_data.has_workflow THEN <<Str(<<"workflow">>)>> ELSE <<>>)

\* C6: for an entity with a state field the fallback output holds a workflow
\* scenario whose step and script body assert the first legal state
C6_WorkflowAssertsFirstState ==
    (op = "fallback" /\ analysis_data.has_workflow) =>
        /\ ~result.raised
        /\ \E i \in 1..Len(result.scenarios) :
            /\ result.scenarios[i].category = Str(<<"workflow">>)
            /\ Get(result.scenarios[i].steps.items[1], <<"expected">>, Null)
                   = Str(<<"State is ", analysis_data.states[1]>>)
            /\ \E p \in 1..Len(result.scenarios[i].robot_code) :
                   /\ result.scenarios[i].robot_code[p] = analysis_data.states[1]
                   /\ result.scenarios[i].robot_code[p - 1] = "    Should Be Equal    ${state}    "

\* lists of two scenario objects that are valid JSON as written
TwoCompleteScenarios ==
    {scs \in OrderedScenarioLists : Len(scs) = 2 /\ JsonLoads(Payload(scs)).ok}

\* whether cutting k lexemes off Payload(scs) ends the text inside its last
\* scenario: the closing "]}" and at least the scenario's closing brace are
\* gone, its opening brace is kept
CutInsideLast(scs, k) == k \in 3..(Len(scs[Len(scs)]) + 1)

\* C7: of a payload cut inside its trailing scenario the parser returns
\* exactly the earlier complete scenarios with their own fields, and does not
\* raise
C7_TruncationKeepsEarlier ==
    op = "parse" =>
        \A scs \in TwoCompleteScenarios, k \in 1..MaxCut :
            (/\ CutInsideLast(scs, k)
             /\ response \in {Bare(Cut(Payload(scs), k)), Fenced(Cut(Payload(scs), k)),
                              OpenFenced(Cut(Payload(scs), k))})
            => /\ ~result.raised
               /\ result.scenarios = ParseCodeTestResponse(Payload(<<scs[1]>>)).scenarios

\* the body with its raw newline, carriage return or tab written as the
\* JSON escape
EscapedBody(b) ==
    CASE b = BodyRawNl  -> BodyEscNl
      [] b = BodyRawTab -> BodyEscTab
      [] b = BodyRawCr  -> <<"line1", BS, "r", BS, "n", "line2">>

\* scenario lists around one body b, with every field present
RoundTripLists(b) ==
    {<<ScnA(b)>>, <<ScnA(BodyPlain), ScnB(b)>>, <<ScnA(b), ScnB(b)>>,
     <<Scn(<<"robot_code">>, <<"TC001">>, b)>>}

\* the same list with the body b written as e
Rewritten(scs, b, e) ==
    [i \in 1..Len(scs) |->
        IF scs[i] = ScnA(b) THEN ScnA(e)
        ELSE IF scs[i] = ScnB(b) THEN ScnB(e)
        ELSE IF scs[i] = Scn(<<"robot_code">>, <<"TC001">>, b)
             THEN Scn(<<"robot_code">>, <<"TC001">>, e)
        ELSE scs[i]]

\* C8: a payload that is valid except for raw newlines, carriage returns or
\* tabs inside script bodies yields the scenario list of the same payload with
\* those characters escaped
C8_RecoveryRoundTrip ==
    op = "parse" =>
        \A b \in RawBodies : \A scs \in RoundTripLists(b) :
            response \in {Bare(Payload(scs)), Fenced(Payload(scs))}
            => /\ ~result.raised
               /\ result.scenarios =
                      ParseCodeTestResponse(Payload(Rewritten(scs, b, EscapedBody(b)))).scenarios

\* C9: of a payload that a stray trailing comma makes unparseable, whose
\* scenario holds name, test_id, description in order and a non-blank body,
\* the parser returns the scenario with its real body: the body as written
\* between its quotes, with \n and \t expanded as the parser expands them
C9_SalvageKeepsRealBody ==
    op = "parse" =>
        \A b \in WellFormedBodies \cup RawBodies :
            response \in {Bare(CommaPayload(<<ScnA(b)>>)), Fenced(CommaPayload(<<ScnA(b)>>))}
            => /\ ~result.raised
               /\ Len(result.scenarios) = 1
               /\ result.scenarios[1].robot_code = UnescapeBody(b)

\* C10: the test_ids of the scenarios one request returns are pairwise
\* distinct
C10_TestIdsDistinct ==
    op = "generate" =>
        \A i, j \in 1..Len(result.scenarios) :
            i # j => result.scenarios[i].test_id # result.scenarios[j].test_id

\* C11: every list a request returns has at most max_tests elements, on the
\* parsed path, on the empty-parse path and when the completion call raises
C11_MaxTestsBoundsResult ==
    (op = "generate" /\ ~result.raised) => Len(result.scenarios) <= max_tests

\* C12: after action_scan_repository or action_analyze_modules has finished,
\* no directory made by fetch_repository during the action exists
C12_WorkingCopyRemoved ==
    scan.state \in {"scanned", "analyzed", "error"} => temp_dirs = 0

\* C13: a scan of a repository that can be cloned but holds no manifest in
\* any directory ends in the error state, not as scanned with zero modules
C13_NoLayoutIsAnError ==
    DiscoverModules(repository) = <<>> => scan.state # "scanned"

\* the behavior files of the module record m
FilesOf(m) == FilesAt(repository, m.path)

\* whether every file of the list parses
WellFormed(files) == \A i \in 1..Len(files) : files[i].ok

\* the identifiers of the top-level classes of the files that assign _name
\* or _inherit
TopLevelNames(files) ==
    UNION {{ModelInfo(files[i].classes[k]).name :
                k \in {k \in 1..Len(files[i].classes) :
                          ModelInfo(files[i].classes[k]) # None}} :
           i \in {i \in 1..Len(files) : files[i].ok}}

\* C14: for well-formed behavior files the analyzer returns exactly one
\* entity description for each top-level qualifying declaration, with
\* pairwise distinct names
C14_OneEntityPerDeclaration ==
    \A i \in 1..Len(scan.module_ids) :
        (scan.module_ids[i].state = "analyzed" /\ WellFormed(FilesOf(scan.module_ids[i])))
        => /\ \A j, k \in 1..Len(scan.module_ids[i].analysis_ids) :
                  j # k => scan.module_ids[i].analysis_ids[j].name
                               # scan.module_ids[i].analysis_ids[k].name
           /\ {scan.module_ids[i].analysis_ids[j].name :
                   j \in 1..Len(scan.module_ids[i].analysis_ids)}
                  = TopLevelNames(FilesOf(scan.module_ids[i]))

\* whether no two elements of the sequence share a name
DistinctNames(elements) ==
    \A j, k \in 1..Len(elements) : j # k => elements[j].name # elements[k].name

\* C15: in every entity description the analyzer returns no two attributes
\* share a name and no two operations share a name
C15_NoDuplicateNames ==
    \A i \in 1..Len(scan.module_ids) :
        \A e \in 1..Len(scan.module_ids[i].analysis_ids) :
            /\ DistinctNames(scan.module_ids[i].analysis_ids[e].fields)
            /\ DistinctNames(scan.module_ids[i].analysis_ids[e].methods)

\* the files of the list that parse
ParsingFiles(files) == SelectSeq(files, LAMBDA f : f.ok)

\* C16: a file that fails to parse is absorbed: the analysis does not end
\* with its error, and the entities of an analyzed module are those of its
\* other files, as if the failing file were absent
C16_ParseErrorAbsorbed ==
    /\ scan.error_message # "parse failed"
    /\ \A i \in 1..Len(scan.module_ids) :
        scan.module_ids[i].state = "analyzed"
        => scan.module_ids[i].analysis_ids
               = AnalyzeModule(ParsingFiles(FilesOf(scan.module_ids[i]))).models

\* C16's case: an analyzed module with a file that fails to parse and another
\* file whose entity was extracted
C16_FailingFileSkipped ==
    /\ scan.state = "analyzed"
    /\ FilesOf(scan.module_ids[1]) = <<PyFile(FALSE, <<>>, 1), PyFile(TRUE, <<ClassA>>, 1)>>
    /\ scan.module_ids[1].state = "analyzed"
    /\ Len(scan.module_ids[1].analysis_ids) = 1

\* C17: when every behavior file of an analyzed module fails to parse, the
\* analysis fails instead of succeeding with an empty entity list
C17_AllFilesFailingIsAnError ==
    \A i \in 1..Len(scan.module_ids) :
        (/\ FilesOf(scan.module_ids[i]) # <<>>
         /\ \A k \in 1..Len(FilesOf(scan.module_ids[i])) : ~FilesOf(scan.module_ids[i])[k].ok)
        => scan.module_ids[i].state # "analyzed"

\* whether a section text lists something: a bulleted line, or a state name
\* after the label of the workflow line
HasEntry(text) ==
    \E i \in 1..Len(text) : text[i] = BULLET \/ (text[1] = "States: " /\ text[i] \in {States[k] : k \in 1..Len(States)})

\* C19: in every document the builder renders, each of the Fields, Methods,
\* Constraints and Workflow sections holds at least one real entry or is its
\* "none found" placeholder line, and the document is not empty
C19_NoSectionDropped ==
    op = "prompt" =>
        /\ prompt.built
        /\ HasEntry(prompt.fields) \/ prompt.fields = NoFieldsFound
        /\ HasEntry(prompt.methods) \/ prompt.methods = NoMethodsFound
        /\ HasEntry(prompt.constraints) \/ prompt.constraints = NoConstraintsFound
        /\ HasEntry(prompt.workflow) \/ prompt.workflow = NoWorkflowFound

\* the scenarios a strategy yields: none when it raises
YieldOf(r) == IF r.raised THEN <<>> ELSE r.scenarios

\* the scenarios extracted from a parse, none when the text does not parse
Yield(data, how) == IF data.ok THEN YieldOf(ExtractScenarios(data.val, how)) ELSE <<>>

\* the first of the four lists that holds a scenario
FirstYield(direct, repair, regex, truncate) ==
    IF direct # <<>> THEN direct
    ELSE IF repair # <<>> THEN repair
    ELSE IF regex # <<>> THEN regex
    ELSE truncate

\* what the four strategies yield on the text, taken in the fixed order
InOrder(json_str) ==
    FirstYield(Yield(JsonLoads(json_str), "direct"),
               Yield(JsonLoads(FixRobotCodeNewlines(json_str)), "repair"),
               ExtractScenariosByRegex(json_str),
               YieldOf(StrategyTruncate(TruncateToValidJson(json_str))))

\* C20: the parser's result is the result of the first strategy, in the order
\* direct, repair, regex salvage, truncation, that yields a scenario; also
\* when the direct parse succeeds and yields no scenario
C20_FirstYieldingStrategy ==
    (op = "parse" /\ ~result.raised /\ FindJson(response) # <<>>)
        => result.scenarios = InOrder(FindJson(response))

\* C21: every scenario the parser returns has a category that is not blank
\* ('functional' when the payload gave none or a blank one), and a scenario
\* whose payload gives the category 'crud' is returned with 'crud'
C21_CategoryNormalized ==
    op = "parse" =>
        /\ \A i \in 1..Len(result.scenarios) :
              /\ result.scenarios[i].category.t = "str"
              /\ ~IsBlank(result.scenarios[i].category.s)
        /\ \A b \in WellFormedBodies :
              response \in {Bare(Payload(<<ScnA(b)>>)), Bare(CommaPayload(<<ScnA(b)>>))}
              => \A i \in 1..Len(result.scenarios) :
                     result.scenarios[i].category = Str(<<"crud">>)

\* C22: the output of _fix_robot_code_newlines is its input with the raw
\* newline, carriage return and tab inside a quoted body value written as
\* escapes, and nothing else changed: a payload without such a character,
\* and a payload whose body string is unterminated, come back unchanged
C22_RepairTouchesOnlyBodies ==
    op = "fixed" =>
        /\ (\A i \in 1..Len(response) : response[i] \notin {NL, CR, TAB}) => result = response
        /\ \A b \in RawBodies :
              response = Payload(<<ScnA(b)>>) => result = Payload(<<ScnA(EscapedBody(b))>>)
        /\ \A k \in 4..5 :
              response = Cut(Payload(<<ScnA(BodyRawNl)>>), k) => result = response

\* C23: has_workflow is recorded exactly when the entity has a Selection
\* attribute named 'state' with a non-empty option list, and then the
\* recorded states are not empty
C23_WorkflowIffStateOptions ==
    op = "analyze" =>
        /\ analysis_data.has_workflow
              <=> \E i \in 1..Len(analysis_data.fields) :
                      /\ analysis_data.fields[i].name = "state"
                      /\ analysis_data.fields[i].type = "Selection"
                      /\ analysis_data.fields[i].selection # <<>>
        /\ analysis_data.has_workflow => analysis_data.states # <<>>

\* the values assigned to the identifier in the declaration, as constants
PrimaryIdentifiers(body) ==
    {body[i].value : i \in {i \in 1..Len(body) : IsAssignConst(body[i]) /\ body[i].target = "_name"}}

\* C24: in both analyzers a declaration that sets _name is recorded under a
\* value it assigns to _name, whatever _inherit it also sets and in whatever
\* order
C24_PrimaryIdentifierWins ==
    (op \in {"scanner", "analyzer"} /\ PrimaryIdentifiers(class_body) # {})
        => /\ analysis_data # None
           /\ analysis_data.name \in PrimaryIdentifiers(class_body)

RECURSIVE Renderable(_)
\* whether the expression is built only of parts the renderer has a text
\* for: names, constants, attributes and subscripts of such, a comparison
\* with one operator of the table, not, and, or
Renderable(node) ==
    CASE node.ast \in {"Name", "Constant"} -> TRUE
      [] node.ast \in {"Attribute", "Subscript"} -> Renderable(node.value)
      [] node.ast = "Compare" ->
             /\ Len(node.ops) = 1
             /\ node.ops[1] \in OpTable
             /\ Renderable(node.left)
             /\ Renderable(node.comparators[1])
      [] node.ast = "UnaryOp" -> Renderable(node.operand)
      [] node.ast = "BoolOp" -> \A i \in 1..Len(node.values) : Renderable(node.values[i])
      [] OTHER -> FALSE

\* C25: a recorded condition holds no stand-in ('?' or 'None') and is
\* recorded only for a guard expression of which every part is renderable
C25_NoGuessedCondition ==
    op = "validations" =>
        \A i \in 1..Len(validations) :
            /\ \A k \in 1..Len(validations[i]) : validations[i][k] \notin {"?", "None"}
            /\ Renderable(test_node)

\* scenario a without a body
ScnANoBody == ObjLit(<<NameM(<<"a">>), IdM(<<"TC001">>), DescM, CatM(<<"crud">>)>>)

\* C26: regex salvage gives a scenario its own body or the placeholder: of
\* the payload whose scenario a has no body and is followed by scenario b,
\* scenario a is returned with the placeholder body
C26_SalvageKeepsOwnBody ==
    (/\ op = "parse"
     /\ response \in {Bare(CommaPayload(<<ScnANoBody, ScnB(BodyPlain)>>)),
                      Fenced(CommaPayload(<<ScnANoBody, ScnB(BodyPlain)>>))}
     /\ ~result.raised
     /\ result.strategy = "regex")
    => (/\ result.scenarios # <<>>
        /\ result.scenarios[1].name = Str(<<"a">>)
        /\ result.scenarios[1].robot_code = PlaceholderBody(<<"a">>, <<"d">>))


\* every analysis of the record's modules has fallback scenarios, and some
\* selected module is analyzed
FallbackStorable(record) ==
    /\ AnalyzedModules(record.module_ids) # <<>>
    /\ \A i \in 1..Len(record.module_ids) :
          \A j \in 1..Len(record.module_ids[i].analysis_ids) :
              ~GenerateFallbackTests(record.module_ids[i].analysis_ids[j]).raised

\* C27: the categories the core emits (crud, validation, workflow of the
\* fallback generator, functional of the parser) are values of the test
\* case's category field: action_generate_tests on a scan whose analyzed
\* modules all have fallback scenarios ends in state done, whatever the API
\* call does
C27_EmittedCategoriesStored ==
    [][(/\ last'.action = "action_generate_tests"
        /\ ~last'.raised
        /\ FallbackStorable(scan))
       => scan'.state = "done"]_vars


\* the ids of the suites action_generate_tests created for the module
SuitesOf(su, module) == {s.id : s \in {x \in su : x.scanned_module_id = module.path}}

\* C28: action_reset_module on a module in state generated deletes the
\* suites generated for that module and their test cases, and nothing else:
\* every other test case and suite stays, and no suite of the module remains
C28_ResetDeletesOwnRecords ==
    [][\A i \in 1..Len(scan.module_ids) :
          (/\ last'.action = "action_reset_module"
           /\ Len(scan'.module_ids) = Len(scan.module_ids)
           /\ scan.module_ids[i].state = "generated"
           /\ scan'.module_ids[i].state = "analyzed")
          => (/\ test_cases' = {t \in test_cases :
                                   t.suite_id \notin SuitesOf(suites, scan.module_ids[i])}
              /\ suites' = {s \in suites : s.id \notin SuitesOf(suites, scan.module_ids[i])})]_vars


\* C29: whatever handlers of the scan were called, the scan rests in draft,
\* scanned, analyzed, done or error, never in scanning, analyzing or
\* generating; and a call in which an exception reached an except branch
\* leaves the state error with a message recorded
C29_NoTransientRest ==
    /\ scan.state \in {"draft", "scanned", "analyzed", "done", "error"}
    /\ last.failed => (scan.state = "error" /\ scan.error_message # NoError)

\* action_generate_tests failed inside its try block
C29_FailedGenerationRests ==
    /\ last.action = "action_generate_tests"
    /\ last.failed
    /\ scan.state = "error"
    /\ \E i \in 1..Len(scan.module_ids) : scan.module_ids[i].state = "analyzed"


\* a payload whose body key is followed by null, not by a quoted value
NullBodyPayload == Payload(<<ObjLit(<<NameM(<<"a">>), Member("robot_code", <<"null">>)>>)>>)

\* C30: both repair loops end on every input: an iteration of the loop of
\* _fix_robot_code_newlines that does not leave the loop moves its position
\* forward, an iteration of the loop of _truncate_to_valid_json that does
\* not return moves the candidate closing brace backward, and the latter
\* returns a text json.loads accepts, or None once no candidate is left
C30_LoopsAdvance ==
    [][/\ op' = "fix" => pos' > pos
       /\ (op = "truncate" /\ op' = "truncate") => pos' < pos
       /\ (op = "truncate" /\ op' = "truncated") => (pos <= 1 \/ JsonLoads(result').ok)]_vars

\* the loop went past a body key that no quoted value follows
C30_KeyWithoutValuePassed ==
    /\ op = "fix"
    /\ response = NullBodyPayload
    /\ pos > Find(response, RobotKey, 1)
    /\ pos <= Len(response)

====
